---- MODULE Spec2Model ----
(***************************************************************************)
(* Model of the text-comparison / error-metric engine of feedback-judge:   *)
(*   src/api/evaluator_core.py           DisabilityDataEvaluator           *)
(*   src/api/document_evaluator_core.py  DocumentDataEvaluator             *)
(*                                                                         *)
(* A Python str is a sequence of one-character strings.  The module is    *)
(* ASCII only, so a CJK character is written as one sequence element       *)
(* holding its pinyin: "qing" = U+8F15, "zhong" = U+4E2D, "du" = U+5EA6,   *)
(* "shi" = U+662F, "fou" = U+5426, "e2" = U+984D, and so on for the field  *)
(* names.                                                                  *)
(* A spreadsheet cell is a record [na, s]: na is pd.isna(cell), s is       *)
(* str(cell) when the cell is present.                                     *)
(* A Python float is the exact fraction [num, den] in lowest terms.        *)
(*                                                                         *)
(* The state is one call in flight: the method that was called, its        *)
(* arguments, and, once it has returned, its return value.                 *)
(***************************************************************************)
EXTENDS Integers, Sequences, FiniteSets, TLC

VARIABLES call, args, result, pc

vars == <<call, args, result, pc>>

---------------------------------------------------------------------------
(* Bounds of the explored inputs *)

MaxLen == 3

LongLen == 5

DocMaxLen == 2

MaxFields == 2

MaxPad == 1

MaxRows == 2

\* the stretches a split table is made of
MaxBlocks == 2

\* the blocks of a file
MaxModels == 3

\* the columns of a table whose mappings are detected by name
MaxCols == 5

Alphabet == {"qing", "du"}

---------------------------------------------------------------------------
(* Python built-ins used by the evaluators *)

Whitespace == {" "}

IsSpace(c) == c \in Whitespace

NotSpace(c) == c \notin Whitespace

RECURSIVE lstrip(_)
lstrip(s) ==
    IF s = <<>> THEN <<>>
    ELSE IF IsSpace(Head(s)) THEN lstrip(Tail(s)) ELSE s

RECURSIVE rstrip(_)
rstrip(s) ==
    IF s = <<>> THEN <<>>
    ELSE IF IsSpace(s[Len(s)]) THEN rstrip(SubSeq(s, 1, Len(s) - 1)) ELSE s

strip(s) == rstrip(lstrip(s))

RemoveWhitespace(s) == SelectSeq(s, NotSpace)

RECURSIVE CollapseWhitespace(_)
CollapseWhitespace(s) ==
    IF s = <<>> THEN <<>>
    ELSE IF IsSpace(Head(s))
         THEN <<" ">> \o CollapseWhitespace(lstrip(s))
         ELSE <<Head(s)>> \o CollapseWhitespace(Tail(s))

RECURSIVE TakeWord(_)
TakeWord(s) ==
    IF s = <<>> \/ IsSpace(Head(s)) THEN <<>>
    ELSE <<Head(s)>> \o TakeWord(Tail(s))

RECURSIVE split(_)
split(s) ==
    LET t == lstrip(s)
        w == TakeWord(t)
    IN IF t = <<>> THEN <<>>
       ELSE <<w>> \o split(SubSeq(t, Len(w) + 1, Len(t)))

min3(x, y, z) ==
    IF x <= y THEN (IF x <= z THEN x ELSE z)
    ELSE (IF y <= z THEN y ELSE z)

max2(x, y) == IF x >= y THEN x ELSE y

RECURSIVE GCD(_, _)
GCD(a, b) == IF b = 0 THEN a ELSE GCD(b, a % b)

Frac(n, d) ==
    LET g == GCD(n, d)
    IN [num |-> n \div g, den |-> d \div g]

Zero == [num |-> 0, den |-> 1]

One == [num |-> 1, den |-> 1]

FracLeq(x, y) == x.num * y.den <= y.num * x.den

FracMin(x, y) == IF FracLeq(x, y) THEN x ELSE y

FracMax(x, y) == IF FracLeq(y, x) THEN x ELSE y

\* 1.0 - x; negative when x exceeds 1.0
OneMinus(x) == Frac(x.den - x.num, x.den)

---------------------------------------------------------------------------
(* DisabilityDataEvaluator, src/api/evaluator_core.py *)

similarity_threshold == Frac(8, 10)

\* the configurable threshold used where the 0.99 literal belongs
ExactMatchThreshold_from_config == similarity_threshold

ExactMatchThreshold == Frac(99, 100)

normalize_text(text) ==
    IF text.na THEN <<>>
    ELSE RemoveWhitespace(strip(text.s))

normalize_text_for_wer(text) ==
    IF text.na THEN <<>>
    ELSE CollapseWhitespace(strip(text.s))

\* the branch for equal elements left out
dp_cell_always_costs(same, del, ins, sub) == 1 + min3(del, ins, sub)

dp_cell(same, del, ins, sub) ==
    IF same THEN sub ELSE 1 + min3(del, ins, sub)

\* cur is dp[i][0..j-1], prev is dp[i-1][0..n]; row[k] holds dp[.][k-1].
\* The tests on cell and row only make each value be computed once.
RECURSIVE dp_fill_row(_, _, _, _, _)
dp_fill_row(cur, prev, x, hyp_seq, j) ==
    IF j > Len(hyp_seq) THEN cur
    ELSE LET cell == dp_cell(x = hyp_seq[j], prev[j + 1], cur[j], prev[j])
         IN IF cell >= 0
            THEN dp_fill_row(Append(cur, cell), prev, x, hyp_seq, j + 1)
            ELSE cur

RECURSIVE dp_fill(_, _, _, _)
dp_fill(prev, ref_seq, hyp_seq, i) ==
    IF i > Len(ref_seq) THEN prev
    ELSE LET row == dp_fill_row(<<i>>, prev, ref_seq[i], hyp_seq, 1)
         IN IF Len(row) > 0 THEN dp_fill(row, ref_seq, hyp_seq, i + 1)
            ELSE prev

\* dp[m][n] of _calculate_edit_distance_rate
dp_edit_distance(ref_seq, hyp_seq) ==
    dp_fill([j \in 1..(Len(hyp_seq) + 1) |-> j - 1], ref_seq, hyp_seq, 1)
        [Len(hyp_seq) + 1]

\* divides by the reference length and does not clamp
_calculate_edit_distance_rate_by_reference(reference, hypothesis) ==
    IF reference = <<>> /\ hypothesis = <<>> THEN Zero
    ELSE IF reference = <<>> THEN One
    ELSE IF hypothesis = <<>> THEN One
    ELSE Frac(dp_edit_distance(reference, hypothesis), Len(reference))

_calculate_edit_distance_rate(reference, hypothesis) ==
    IF reference = <<>> /\ hypothesis = <<>> THEN Zero
    ELSE IF reference = <<>> THEN One
    ELSE IF hypothesis = <<>> THEN One
    ELSE LET edit_distance == dp_edit_distance(reference, hypothesis)
             max_length == max2(Len(reference), Len(hypothesis))
         IN IF max_length = 0 THEN Zero
            ELSE FracMin(Frac(edit_distance, max_length), One)

\* an empty reference scored as nothing to compare against
Disability_calculate_cer_empty_reference_zero(reference, hypothesis) ==
    LET ref_norm == normalize_text(reference)
        hyp_norm == normalize_text(hypothesis)
    IN IF ref_norm = <<>> THEN Zero
       ELSE IF hyp_norm = <<>> THEN One
       ELSE _calculate_edit_distance_rate(ref_norm, hyp_norm)

Disability_calculate_cer(reference, hypothesis) ==
    LET ref_norm == normalize_text(reference)
        hyp_norm == normalize_text(hypothesis)
    IN IF ref_norm = <<>> /\ hyp_norm = <<>> THEN Zero
       ELSE IF ref_norm = <<>> THEN (IF hyp_norm # <<>> THEN One ELSE Zero)
       ELSE IF hyp_norm = <<>> THEN One
       ELSE _calculate_edit_distance_rate(ref_norm, hyp_norm)

wer_tokens(ref_norm, hyp_norm, text_norm) ==
    IF (\E i \in 1..Len(ref_norm) : ref_norm[i] = " ")
       \/ (\E i \in 1..Len(hyp_norm) : hyp_norm[i] = " ")
    THEN split(text_norm)
    ELSE text_norm

Disability_calculate_wer(reference, hypothesis) ==
    LET ref_norm == normalize_text_for_wer(reference)
        hyp_norm == normalize_text_for_wer(hypothesis)
    IN IF ref_norm = <<>> /\ hyp_norm = <<>> THEN Zero
       ELSE IF ref_norm = <<>> THEN (IF hyp_norm # <<>> THEN One ELSE Zero)
       ELSE IF hyp_norm = <<>> THEN One
       ELSE _calculate_edit_distance_rate(
                wer_tokens(ref_norm, hyp_norm, ref_norm),
                wer_tokens(ref_norm, hyp_norm, hyp_norm))

calculate_cer_accuracy(reference, hypothesis) ==
    FracMax(Zero, OneMinus(Disability_calculate_cer(reference, hypothesis)))

calculate_similarity(text1, text2) == calculate_cer_accuracy(text1, text2)

calculate_ocr_metrics(reference, hypothesis) ==
    LET cer == Disability_calculate_cer(reference, hypothesis)
        wer == Disability_calculate_wer(reference, hypothesis)
        accuracy == FracMax(Zero, OneMinus(cer))
    IN [cer |-> cer, wer |-> wer, accuracy |-> accuracy,
        similarity |-> accuracy]

FracAdd(x, y) == Frac(x.num * y.den + y.num * x.den, x.den * y.den)

FracDivInt(x, n) == Frac(x.num, x.den * n)

Cell(s) == [na |-> FALSE, s |-> s]

NaN == [na |-> TRUE, s |-> <<>>]

\* one RecordFieldResult; record_id and subject_id are labels copied through
RecordFieldResult(entry) ==
    LET ocr_metrics == calculate_ocr_metrics(Cell(entry.correct_value),
                                             Cell(entry.predicted_value))
        similarity == ocr_metrics.accuracy
    IN [field_name |-> entry.field_name,
        correct_value |-> entry.correct_value,
        predicted_value |-> entry.predicted_value,
        similarity |-> similarity,
        is_exact_match |-> FracLeq(ExactMatchThreshold, similarity),
        cer |-> ocr_metrics.cer,
        wer |-> ocr_metrics.wer]

RECURSIVE total_score(_)
total_score(field_results) ==
    IF field_results = <<>> THEN Zero
    ELSE FracAdd(Head(field_results).similarity,
                 total_score(Tail(field_results)))

\* record_data is the dict in insertion order: a sequence of
\* [field_name, correct_value, predicted_value] with distinct field names
Disability_evaluate_record_fields(record_data) ==
    LET field_results ==
            [i \in 1..Len(record_data) |-> RecordFieldResult(record_data[i])]
        matched_count ==
            Cardinality({i \in 1..Len(record_data) :
                            field_results[i].is_exact_match})
    IN [field_results |-> field_results,
        overall_accuracy |->
            IF Len(record_data) > 0
            THEN FracDivInt(total_score(field_results), Len(record_data))
            ELSE Zero,
        total_fields |-> Len(record_data),
        matched_fields |-> matched_count]

---------------------------------------------------------------------------
(* DocumentDataEvaluator, src/api/document_evaluator_core.py *)

Digits == {"0", "1", "2", "3", "4", "5", "6", "7", "8", "9"}

AllDigits(s) == \A i \in 1..Len(s) : s[i] \in Digits

LowerLetters ==
    <<"a", "b", "c", "d", "e", "f", "g", "h", "i", "j", "k", "l", "m",
      "n", "o", "p", "q", "r", "s", "t", "u", "v", "w", "x", "y", "z">>

UpperLetters ==
    <<"A", "B", "C", "D", "E", "F", "G", "H", "I", "J", "K", "L", "M",
      "N", "O", "P", "Q", "R", "S", "T", "U", "V", "W", "X", "Y", "Z">>

UpperChar(c) ==
    IF \E i \in 1..26 : LowerLetters[i] = c
    THEN UpperLetters[CHOOSE i \in 1..26 : LowerLetters[i] = c]
    ELSE c

LowerChar(c) ==
    IF \E i \in 1..26 : UpperLetters[i] = c
    THEN LowerLetters[CHOOSE i \in 1..26 : UpperLetters[i] = c]
    ELSE c

upper(s) == [i \in 1..Len(s) |-> UpperChar(s[i])]

lower(s) == [i \in 1..Len(s) |-> LowerChar(s[i])]

\* sub in s
Contains(sub, s) ==
    \E i \in 0..(Len(s) - Len(sub)) : SubSeq(s, i + 1, i + Len(sub)) = sub

DateSeparators == {"/", "-"}

NotDateSeparator(c) == c \notin DateSeparators

\* re.match(r'^\d{7,8}$', normalized)
IsSevenOrEightDigits(normalized) ==
    Len(normalized) \in {7, 8} /\ AllDigits(normalized)

normalize_date(date_str) ==
    IF date_str.na THEN <<>>
    ELSE LET stripped == strip(date_str.s)
             normalized == SelectSeq(stripped, NotDateSeparator)
             padded == IF Len(normalized) = 7 THEN <<"0">> \o normalized
                       ELSE normalized
         IN IF stripped = <<>> THEN <<>>
            ELSE IF IsSevenOrEightDigits(normalized)
                 THEN SubSeq(padded, 1, 3) \o <<"/">> \o SubSeq(padded, 4, 5)
                      \o <<"/">> \o SubSeq(padded, 6, 7)
                 ELSE stripped

BooleanYes ==
    {<<"Y">>, <<"Y", "E", "S">>, <<"T", "R", "U", "E">>, <<"1">>, <<"shi">>}

BooleanNo ==
    {<<"N">>, <<"N", "O">>, <<"F", "A", "L", "S", "E">>, <<"0">>, <<"fou">>}

normalize_boolean(bool_str) ==
    IF bool_str.na THEN <<>>
    ELSE LET upped == upper(strip(bool_str.s))
         IN IF upped \in BooleanYes THEN <<"Y">>
            ELSE IF upped \in BooleanNo THEN <<"N">>
            ELSE upped

\* float(cleaned) for the forms [sign] digits [. [digits]] and [sign] . digits.
\* Exponents, "inf", "nan" and "_" need characters outside the input alphabets.
FloatBody(cleaned) ==
    IF cleaned # <<>> /\ Head(cleaned) \in {"+", "-"} THEN Tail(cleaned)
    ELSE cleaned

DotCount(body) == Cardinality({i \in 1..Len(body) : body[i] = "."})

IsFloatLiteral(cleaned) ==
    LET body == FloatBody(cleaned)
    IN /\ \A i \in 1..Len(body) : body[i] \in Digits \cup {"."}
       /\ DotCount(body) <= 1
       /\ \E i \in 1..Len(body) : body[i] \in Digits

RECURSIVE StripLeadingZeros(_)
StripLeadingZeros(ds) ==
    IF ds = <<>> THEN <<"0">>
    ELSE IF Head(ds) = "0" /\ Len(ds) > 1 THEN StripLeadingZeros(Tail(ds))
    ELSE ds

RECURSIVE StripTrailingZeros(_)
StripTrailingZeros(ds) ==
    IF ds = <<>> THEN <<"0">>
    ELSE IF ds[Len(ds)] = "0" /\ Len(ds) > 1
         THEN StripTrailingZeros(SubSeq(ds, 1, Len(ds) - 1))
    ELSE ds

\* a float is its sign, integer digits and fraction digits, as repr prints it
FloatOf(cleaned) ==
    LET body == FloatBody(cleaned)
        dot == IF DotCount(body) = 1
               THEN CHOOSE i \in 1..Len(body) : body[i] = "."
               ELSE Len(body) + 1
    IN [neg |-> cleaned # <<>> /\ Head(cleaned) = "-",
        ip |-> StripLeadingZeros(SubSeq(body, 1, dot - 1)),
        fp |-> StripTrailingZeros(SubSeq(body, dot + 1, Len(body)))]

FloatZero == [neg |-> FALSE, ip |-> <<"0">>, fp |-> <<"0">>]

FloatIsZero(f) == f.ip = <<"0">> /\ f.fp = <<"0">>

\* f == g on floats: -0.0 == 0.0
FloatEq(f, g) ==
    /\ f.ip = g.ip
    /\ f.fp = g.fp
    /\ (f.neg = g.neg \/ FloatIsZero(f))

\* str(f) for 1e-4 <= |f| < 1e16 or f = 0
FloatStr(f) ==
    (IF f.neg THEN <<"-">> ELSE <<>>) \o f.ip \o <<".">> \o f.fp

NotCommaOrSpace(c) == c # "," /\ ~IsSpace(c)

normalize_amount(amount_str) ==
    IF amount_str.na THEN FloatZero
    ELSE LET stripped == strip(amount_str.s)
             cleaned == SelectSeq(stripped, NotCommaOrSpace)
         IN IF stripped = <<>> THEN FloatZero
            ELSE IF IsFloatLiteral(cleaned) THEN FloatOf(cleaned)
            ELSE FloatZero

\* the insertion candidate dp[i][j-1] left out of the minimum
Document_dp_cell_no_insert(same, del, ins, sub) ==
    IF same THEN sub ELSE 1 + (IF del <= sub THEN del ELSE sub)

Document_dp_cell(same, del, ins, sub) ==
    IF same THEN sub ELSE 1 + min3(del, ins, sub)

RECURSIVE Document_dp_fill_row(_, _, _, _, _)
Document_dp_fill_row(cur, prev, x, seq2, j) ==
    IF j > Len(seq2) THEN cur
    ELSE LET cell == Document_dp_cell(x = seq2[j], prev[j + 1], cur[j],
                                      prev[j])
         IN IF cell >= 0
            THEN Document_dp_fill_row(Append(cur, cell), prev, x, seq2, j + 1)
            ELSE cur

RECURSIVE Document_dp_fill(_, _, _, _)
Document_dp_fill(prev, seq1, seq2, i) ==
    IF i > Len(seq1) THEN prev
    ELSE LET row == Document_dp_fill_row(<<i>>, prev, seq1[i], seq2, 1)
         IN IF Len(row) > 0 THEN Document_dp_fill(row, seq1, seq2, i + 1)
            ELSE prev

_edit_distance(seq1, seq2) ==
    Document_dp_fill([j \in 1..(Len(seq2) + 1) |-> j - 1], seq1, seq2, 1)
        [Len(seq2) + 1]

Document_calculate_cer(correct, predicted) ==
    IF correct = <<>> /\ predicted = <<>> THEN Zero
    ELSE IF correct = <<>> THEN One
    ELSE IF predicted = <<>> THEN One
    ELSE IF Len(correct) > 0
         THEN Frac(_edit_distance(correct, predicted), Len(correct))
         ELSE One

Document_calculate_wer(correct, predicted) ==
    IF correct = <<>> /\ predicted = <<>> THEN Zero
    ELSE IF correct = <<>> THEN One
    ELSE IF predicted = <<>> THEN One
    ELSE Frac(_edit_distance(correct, predicted), Len(correct))

\* s.split('/')
RECURSIVE SplitOnSlash(_)
SplitOnSlash(s) ==
    IF \E i \in 1..Len(s) : s[i] = "/"
    THEN LET k == CHOOSE i \in 1..Len(s) :
                    s[i] = "/" /\ \A j \in 1..(i - 1) : s[j] # "/"
         IN <<SubSeq(s, 1, k - 1)>> \o SplitOnSlash(SubSeq(s, k + 1, Len(s)))
    ELSE <<s>>

calculate_date_similarity(correct, predicted) ==
    LET norm_correct == normalize_date(Cell(correct))
        norm_predicted == normalize_date(Cell(predicted))
        correct_parts == SplitOnSlash(norm_correct)
        predicted_parts == SplitOnSlash(norm_predicted)
    IN IF norm_correct = norm_predicted THEN One
       ELSE IF Len(correct_parts) = 3 /\ Len(predicted_parts) = 3
            THEN Frac(Cardinality({i \in 1..3 :
                                    correct_parts[i] = predicted_parts[i]}), 3)
       ELSE Zero

calculate_amount_similarity(correct, predicted) ==
    IF FloatEq(normalize_amount(Cell(correct)),
               normalize_amount(Cell(predicted)))
    THEN One ELSE Zero

calculate_boolean_similarity(correct, predicted) ==
    IF normalize_boolean(Cell(correct)) = normalize_boolean(Cell(predicted))
    THEN One ELSE Zero

calculate_text_similarity(correct, predicted) ==
    IF strip(correct) = strip(predicted) THEN One
    ELSE FracMax(Zero, OneMinus(Document_calculate_cer(correct, predicted)))

\* str(value) of a cell handed in as-is: a missing cell prints as "nan"
CellStr(value) == IF value.na THEN <<"n", "a", "n">> ELSE value.s

\* field-name and content keywords: U+65E5 U+671F, U+91D1 U+984D, U+5143,
\* U+7BC4 U+570D, U+55AE U+7B46, U+5168 U+90E8
KwDate == <<"ri", "qi">>

KwAmount == <<"jin", "e2">>

KwYuan == <<"yuan">>

KwRange == <<"fan", "wei">>

KwSingle == <<"dan", "bi">>

KwAll == <<"quan", "bu">>

\* U+5C0F U+984D U+7D42 U+8001 U+975E U+6263 U+62BC U+7BC4 U+570D
SmallAmountFieldName ==
    <<"xiao", "e2", "zhong1", "lao", "fei", "kou", "ya", "fan", "wei">>

BooleanTokens ==
    {<<"Y">>, <<"N">>, <<"y">>, <<"n">>, <<"Y", "e", "s">>, <<"N", "o">>,
     <<"T", "r", "u", "e">>, <<"F", "a", "l", "s", "e">>}

\* re.match(r'\d{2,3}[/-]\d{1,2}[/-]\d{1,2}', value_str): a prefix match
LooksLikeDate(value_str) ==
    \E a \in {2, 3}, b \in {1, 2}, c \in {1, 2} :
        /\ Len(value_str) >= a + b + c + 2
        /\ AllDigits(SubSeq(value_str, 1, a))
        /\ value_str[a + 1] \in DateSeparators
        /\ AllDigits(SubSeq(value_str, a + 2, a + 1 + b))
        /\ value_str[a + b + 2] \in DateSeparators
        /\ AllDigits(SubSeq(value_str, a + b + 3, a + b + c + 2))

NotComma(c) == c # ","

\* re.match(r'^\d+(\.\d+)?$', value_str.replace(',', ''))
LooksLikeAmount(value_str) ==
    LET t == SelectSeq(value_str, NotComma)
    IN \/ (t # <<>> /\ AllDigits(t))
       \/ \E k \in 2..(Len(t) - 1) :
            /\ t[k] = "."
            /\ AllDigits(SubSeq(t, 1, k - 1))
            /\ AllDigits(SubSeq(t, k + 1, Len(t)))

\* the type the content loop settles on for one value, "" when it goes on
ContentType(value) ==
    IF value.na THEN ""
    ELSE LET value_str == strip(value.s)
         IN IF value_str \in BooleanTokens THEN "BOOLEAN"
            ELSE IF LooksLikeDate(value_str) THEN "DATE"
            ELSE IF LooksLikeAmount(value_str) THEN "AMOUNT"
            ELSE ""

determine_field_type(field_name, correct_value, predicted_value) ==
    LET field_name_lower == lower(field_name)
    IN IF Contains(KwDate, field_name)
          \/ Contains(<<"d", "a", "t", "e">>, field_name_lower)
       THEN "DATE"
       ELSE IF Contains(KwAmount, field_name)
               \/ Contains(<<"a", "m", "o", "u", "n", "t">>, field_name_lower)
               \/ Contains(KwYuan, field_name)
       THEN "AMOUNT"
       ELSE IF Contains(KwRange, field_name)
               /\ (Contains(KwSingle, CellStr(correct_value))
                   \/ Contains(KwAll, CellStr(correct_value)))
       THEN "TEXT"
       ELSE IF field_name = SmallAmountFieldName THEN "BOOLEAN"
       ELSE IF ContentType(correct_value) # ""
       THEN ContentType(correct_value)
       ELSE IF ContentType(predicted_value) # ""
       THEN ContentType(predicted_value)
       ELSE "TEXT"

\* a normalized value is a str or a float
StrValue(s) == [kind |-> "str", s |-> s, f |-> FloatZero]

FloatValue(f) == [kind |-> "float", s |-> <<>>, f |-> f]

\* str(value) of a normalized value
ValueStr(v) == IF v.kind = "float" THEN FloatStr(v.f) ELSE v.s

normalize_value(value, field_type) ==
    IF value.na THEN StrValue(<<>>)
    ELSE IF field_type = "DATE" THEN StrValue(normalize_date(Cell(value.s)))
    ELSE IF field_type = "AMOUNT"
         THEN FloatValue(normalize_amount(Cell(value.s)))
    ELSE IF field_type = "BOOLEAN"
         THEN StrValue(normalize_boolean(Cell(value.s)))
    ELSE StrValue(strip(value.s))

calculate_field_similarity(correct_value, predicted_value, field_type) ==
    IF field_type = "DATE"
    THEN calculate_date_similarity(ValueStr(correct_value),
                                   ValueStr(predicted_value))
    ELSE IF field_type = "AMOUNT"
    THEN calculate_amount_similarity(ValueStr(correct_value),
                                     ValueStr(predicted_value))
    ELSE IF field_type = "BOOLEAN"
    THEN calculate_boolean_similarity(ValueStr(correct_value),
                                      ValueStr(predicted_value))
    ELSE calculate_text_similarity(ValueStr(correct_value),
                                   ValueStr(predicted_value))

generate_error_description(field_type, similarity) ==
    IF FracLeq(ExactMatchThreshold, similarity) THEN ""
    ELSE IF field_type = "DATE" THEN "date format or content differs"
    ELSE IF field_type = "AMOUNT" THEN "amount value wrong"
    ELSE IF field_type = "BOOLEAN" THEN "Y/N judgment wrong"
    ELSE "text content differs"

evaluate_single_field(correct_value, predicted_value, field_name) ==
    LET field_type ==
            determine_field_type(field_name, correct_value, predicted_value)
        norm_correct == normalize_value(correct_value, field_type)
        norm_predicted == normalize_value(predicted_value, field_type)
        similarity ==
            calculate_field_similarity(norm_correct, norm_predicted, field_type)
        cer == Document_calculate_cer(ValueStr(norm_correct),
                                      ValueStr(norm_predicted))
        wer == Document_calculate_wer(ValueStr(norm_correct),
                                      ValueStr(norm_predicted))
        is_exact_match == FracLeq(ExactMatchThreshold, similarity)
    IN [field_name |-> field_name,
        field_type |-> field_type,
        correct_value |-> ValueStr(norm_correct),
        predicted_value |-> ValueStr(norm_predicted),
        similarity |-> similarity,
        is_exact_match |-> is_exact_match,
        cer |-> cer,
        wer |-> wer,
        error_description |-> generate_error_description(field_type, similarity)]

---------------------------------------------------------------------------
(* Inputs *)

StringsOver(alphabet, n) == UNION {[1..k -> alphabet] : k \in 0..n}

Repeat(c, n) == [i \in 1..n |-> c]

\* "zhong du" ~ U+4E2D U+5EA6; two strings of LongLen characters that differ
\* in their last character only; strings with leading, trailing and inner
\* whitespace
TextSamples ==
    {<<"zhong", "du">>,
     Repeat("du", LongLen),
     [i \in 1..LongLen |-> IF i = LongLen THEN "qing" ELSE "du"],
     <<" ">>, <<" ", "du">>, <<"du", " ">>, <<"qing", " ", "du">>,
     <<"qing", " ", " ", "du">>, <<"du", " ", "qing">>,
     <<"du", " ", "du", " ", "qing">>}

Texts == StringsOver(Alphabet, MaxLen) \cup TextSamples

Cells == {Cell(s) : s \in Texts} \cup {NaN}

WordLists == {split(s) : s \in Texts}

SequencePairs == (Texts \X Texts) \cup (WordLists \X WordLists)

\* U+969C U+7919 U+7B49 U+7D1A, U+969C U+7919 U+985E U+5225, ICD U+8A3A U+65B7
DisabilityFieldNames ==
    <<<<"zhang", "ai", "deng", "ji">>,
      <<"zhang", "ai", "lei", "bie">>,
      <<"I", "C", "D", "zhen", "duan">>>>

RecordTexts ==
    {<<>>, <<"qing", "du">>, <<"zhong", "du">>, <<"qing", " ", "du">>}

Entry(i, c, p) ==
    [field_name |-> DisabilityFieldNames[i],
     correct_value |-> c, predicted_value |-> p]

\* one-field records over all texts, longer records over RecordTexts
RecordInputs ==
    {<<>>}
    \cup {<<Entry(1, c, p)>> : c \in Texts, p \in Texts}
    \cup UNION {{[i \in 1..n |-> Entry(i, f[i][1], f[i][2])] :
                    f \in [1..n -> RecordTexts \X RecordTexts]} :
                n \in 2..MaxFields}

DocAlphabet == {"1", "Y"}

DocSamples ==
    {<<"1", "1", "4", "/", "0", "4", "/", "2", "4">>,
     <<"1", "1", "4", "/", "0", "4", "/", "2", "5">>,
     <<"1", "1", "4", "/", "0", "4", "/", "1", "4">>,
     <<"1", "1", "4", "/", "1", "2", "/", "2", "4">>,
     <<"1", "1", "4", "0", "4", "2", "4">>,
     <<"1", "1", "4", "-", "4", "-", "2", "4">>,
     <<"1", ",", "0", "0", "0">>,
     <<"1", "0", "0", "0">>,
     <<"1", "0", "0", "0", ".", "5", "0">>,
     <<"0">>, <<"-", "0">>,
     <<"N">>, <<"y">>, <<"Y", "e", "s">>, <<"n", "o">>, <<"shi">>, <<"fou">>,
     <<"dan", "bi">>, <<"quan", "bu">>, <<" ", "Y">>, <<"a", " ", "b">>,
     <<"a", "b">>, <<"a", "b", "c", "d">>,
     Repeat("a", LongLen),
     [i \in 1..LongLen |-> IF i = LongLen THEN "b" ELSE "a"]}

DocTexts == StringsOver(DocAlphabet, DocMaxLen) \cup DocSamples

DocCells == {Cell(s) : s \in DocTexts} \cup {NaN}

\* U+767C U+6587 U+65E5 U+671F, U+5F97 U+8ACB U+9818 _ U+91D1 U+984D,
\* U+89E3 U+7D04 U+91D1 _ U+7BC4 U+570D, U+5099 U+8A3B, "Amount"
DocFieldNames ==
    {<<"fa", "wen", "ri", "qi">>,
     <<"de", "qing3", "ling", "_", "jin", "e2">>,
     <<"jie", "yue", "jin", "_", "fan", "wei">>,
     SmallAmountFieldName,
     <<"bei", "zhu">>,
     <<"A", "m", "o", "u", "n", "t">>}

---------------------------------------------------------------------------
(* Calls of the two evaluators *)

DisabilityCalls ==
    {"DisabilityDataEvaluator.calculate_ocr_metrics",
     "DisabilityDataEvaluator.calculate_similarity"}

DocumentTextCalls ==
    {"DocumentDataEvaluator.calculate_cer",
     "DocumentDataEvaluator.calculate_text_similarity"}

SequenceCalls ==
    {"DisabilityDataEvaluator._calculate_edit_distance_rate",
     "DocumentDataEvaluator._edit_distance"}

Init ==
    /\ pc = "ready"
    /\ result = <<>>
    /\ \/ /\ call \in DisabilityCalls
          /\ args \in [reference : Cells, hypothesis : Cells]
       \/ /\ call = "DisabilityDataEvaluator.evaluate_record_fields"
          /\ args \in [record_data : RecordInputs]
       \/ /\ call \in SequenceCalls
          /\ args \in {[seq1 |-> p[1], seq2 |-> p[2]] : p \in SequencePairs}
       \/ /\ call \in DocumentTextCalls
          /\ args \in [correct : DocTexts \cup Texts,
                       predicted : DocTexts \cup Texts]
       \/ /\ call = "DocumentDataEvaluator.evaluate_single_field"
          /\ args \in [correct_value : DocCells, predicted_value : DocCells,
                       field_name : DocFieldNames]

Return(value) ==
    /\ pc' = "done"
    /\ result' = value
    /\ UNCHANGED <<call, args>>

CalculateOcrMetrics ==
    /\ pc = "ready"
    /\ call = "DisabilityDataEvaluator.calculate_ocr_metrics"
    /\ Return(calculate_ocr_metrics(args.reference, args.hypothesis))

CalculateSimilarity ==
    /\ pc = "ready"
    /\ call = "DisabilityDataEvaluator.calculate_similarity"
    /\ Return(calculate_similarity(args.reference, args.hypothesis))

EvaluateRecordFields ==
    /\ pc = "ready"
    /\ call = "DisabilityDataEvaluator.evaluate_record_fields"
    /\ Return(Disability_evaluate_record_fields(args.record_data))

CalculateEditDistanceRate ==
    /\ pc = "ready"
    /\ call = "DisabilityDataEvaluator._calculate_edit_distance_rate"
    /\ Return(_calculate_edit_distance_rate(args.seq1, args.seq2))

EditDistance ==
    /\ pc = "ready"
    /\ call = "DocumentDataEvaluator._edit_distance"
    /\ Return(_edit_distance(args.seq1, args.seq2))

DocumentCalculateCer ==
    /\ pc = "ready"
    /\ call = "DocumentDataEvaluator.calculate_cer"
    /\ Return(Document_calculate_cer(args.correct, args.predicted))

CalculateTextSimilarity ==
    /\ pc = "ready"
    /\ call = "DocumentDataEvaluator.calculate_text_similarity"
    /\ Return(calculate_text_similarity(args.correct, args.predicted))

EvaluateSingleField ==
    /\ pc = "ready"
    /\ call = "DocumentDataEvaluator.evaluate_single_field"
    /\ Return(evaluate_single_field(args.correct_value, args.predicted_value,
                                    args.field_name))

Next ==
    \/ CalculateOcrMetrics
    \/ CalculateSimilarity
    \/ EvaluateRecordFields
    \/ CalculateEditDistanceRate
    \/ EditDistance
    \/ DocumentCalculateCer
    \/ CalculateTextSimilarity
    \/ EvaluateSingleField

Spec == Init /\ [][Next]_vars

---------------------------------------------------------------------------
(* Calls of the normalizers *)

Pad(n) == Repeat(" ", n)

Padded(words) ==
    {Pad(l) \o w \o Pad(r) : w \in words, l \in 0..MaxPad, r \in 0..MaxPad}

Years == {<<"1", "1", "4">>, <<"0", "9", "9">>}

Months == {<<"0", "4">>, <<"1", "2">>}

Days == {<<"2", "4">>, <<"0", "1">>}

DateJoiners == {<<>>, <<"/">>, <<"-">>}

\* minguo dates YYYMMDD written with and without separators
MinguoDates ==
    {y \o a \o m \o b \o d :
        y \in Years, m \in Months, d \in Days,
        a \in DateJoiners, b \in DateJoiners}

OtherDates ==
    {<<>>, <<"2", "0", "2", "5", "0", "4", "2", "4">>,
     <<"2", "0", "2", "5", "/", "0", "4", "/", "2", "4">>,
     <<"1", "1", "4", "/", "4", "/", "2", "4">>,
     <<"1", "1", "4", "0", "4">>, <<"a", "b", "c">>, <<"/">>}

DateInputs == {Cell(s) : s \in Padded(MinguoDates \cup OtherDates)} \cup {NaN}

Capitalize(w) ==
    [i \in 1..Len(w) |-> IF i = 1 THEN UpperChar(w[i]) ELSE LowerChar(w[i])]

CaseVariants(words) ==
    words \cup {lower(w) : w \in words} \cup {Capitalize(w) : w \in words}

OtherWords ==
    {<<>>, <<"m", "a", "y", "b", "e">>, <<"Y", "E">>, <<"2">>,
     <<"shi", "fou">>, <<"Y", " ", "N">>, <<"qing", "du">>}

BooleanInputs ==
    {Cell(s) : s \in Padded(CaseVariants(BooleanYes \cup BooleanNo
                                         \cup OtherWords))}
    \cup {NaN}

InitNormalize ==
    /\ pc = "ready"
    /\ result = <<>>
    /\ \/ /\ call = "DocumentDataEvaluator.normalize_date"
          /\ args \in [date_str : DateInputs]
       \/ /\ call = "DocumentDataEvaluator.normalize_boolean"
          /\ args \in [bool_str : BooleanInputs]

NormalizeDate ==
    /\ pc = "ready"
    /\ call = "DocumentDataEvaluator.normalize_date"
    /\ Return(normalize_date(args.date_str))

NormalizeBoolean ==
    /\ pc = "ready"
    /\ call = "DocumentDataEvaluator.normalize_boolean"
    /\ Return(normalize_boolean(args.bool_str))

NextNormalize ==
    \/ NormalizeDate
    \/ NormalizeBoolean

SpecNormalize == InitNormalize /\ [][NextNormalize]_vars

---------------------------------------------------------------------------
(* Evaluation of the rows of a table, src/api/evaluator_core.py,
   src/api/document_evaluator_core.py, src/api/document_evaluator_service.py *)

\* a data frame is a sequence of rows and a row a sequence of cells; iloc
\* counts columns from 0
iloc(row, col) == row[col + 1]

\* the entry evaluate_all_records stores in record_data for one mapping
RecordDataEntry(row, mapping) ==
    [field_name |-> mapping.field_name,
     correct_value |-> iloc(row, mapping.correct_col).s,
     predicted_value |->
        IF iloc(row, mapping.predicted_col).na THEN <<>>
        ELSE iloc(row, mapping.predicted_col).s]

\* record_data of one row; field_mappings is the dict in insertion order, a
\* sequence of [field_name, correct_col, predicted_col] with the integer
\* column positions _detect_column_mappings stores
RowRecordData(row, field_mappings) ==
    LET has_entry(mapping) ==
            /\ mapping.correct_col < Len(row)
            /\ mapping.predicted_col < Len(row)
            /\ ~iloc(row, mapping.correct_col).na
        kept == SelectSeq(field_mappings, has_entry)
    IN [i \in 1..Len(kept) |-> RecordDataEntry(row, kept[i])]

RECURSIVE Disability_evaluate_all_records(_, _)
Disability_evaluate_all_records(df, field_mappings) ==
    IF df = <<>> THEN <<>>
    ELSE LET record_data == RowRecordData(Head(df), field_mappings)
             rest == Disability_evaluate_all_records(Tail(df), field_mappings)
         IN IF record_data # <<>>
            THEN <<Disability_evaluate_record_fields(record_data)>> \o rest
            ELSE rest

\* row.iloc[col] if col < len(row) else None
CellAt(row, col) == IF col < Len(row) THEN iloc(row, col) ELSE NaN

\* the element of a one-element set
TheOnly(S) == CHOOSE x \in S : TRUE

CaseResult(row, ai_col, human_col, field_name) ==
    LET ai_value == CellAt(row, ai_col)
        human_value == CellAt(row, human_col)
    IN TheOnly({[case_id |-> CellStr(CellAt(row, 0)),
                 ai_value |-> IF ai_value.na THEN <<>> ELSE ai_value.s,
                 human_value |->
                    IF human_value.na THEN <<>> ELSE human_value.s,
                 is_correct |-> field_result.is_exact_match,
                 similarity |-> field_result.similarity,
                 cer |-> field_result.cer,
                 wer |-> field_result.wer] :
                field_result \in {evaluate_single_field(human_value, ai_value,
                                                        field_name)}})

\* the loop over data_rows.iterrows()
RECURSIVE CaseResults(_, _, _, _)
CaseResults(data_rows, ai_col, human_col, field_name) ==
    IF data_rows = <<>> THEN <<>>
    ELSE LET row == Head(data_rows)
             rest == CaseResults(Tail(data_rows), ai_col, human_col,
                                 field_name)
         IN IF ~CellAt(row, human_col).na \/ ~CellAt(row, ai_col).na
            THEN <<CaseResult(row, ai_col, human_col, field_name)>> \o rest
            ELSE rest

evaluate_field_data(data_rows, ai_col, human_col, field_name, model_name) ==
    TheOnly({LET total_count == Len(case_results)
                 correct_count ==
                    Cardinality({i \in 1..Len(case_results) :
                                    case_results[i].is_correct})
             IN [model_name |-> model_name,
                 ai_column |-> ai_col,
                 human_column |-> human_col,
                 total_cases |-> total_count,
                 correct_cases |-> correct_count,
                 accuracy_rate |->
                    IF total_count > 0 THEN Frac(correct_count, total_count)
                    ELSE Zero,
                 case_results |-> case_results] :
             case_results \in {CaseResults(data_rows, ai_col, human_col,
                                           field_name)}})

\* the loop over record_data.items()
RECURSIVE DocumentFieldResults(_)
DocumentFieldResults(record_data) ==
    IF record_data = <<>> THEN <<>>
    ELSE <<evaluate_single_field(Head(record_data).correct_value,
                                 Head(record_data).predicted_value,
                                 Head(record_data).field_name)>>
         \o DocumentFieldResults(Tail(record_data))

\* record_data is the dict in insertion order: a sequence of
\* [field_name, correct_value, predicted_value] whose values are cells
Document_evaluate_record_fields(record_data) ==
    TheOnly({LET total_fields == Len(record_data)
                 matched_fields ==
                    Cardinality({i \in 1..Len(field_results) :
                                    field_results[i].is_exact_match})
                 types ==
                    {field_results[i].field_type : i \in 1..Len(field_results)}
                 total_of(t) ==
                    Cardinality({i \in 1..Len(field_results) :
                                    field_results[i].field_type = t})
                 correct_of(t) ==
                    Cardinality({i \in 1..Len(field_results) :
                                    /\ field_results[i].field_type = t
                                    /\ field_results[i].is_exact_match})
             IN [field_results |-> field_results,
                 overall_accuracy |->
                    IF total_fields > 0 THEN Frac(matched_fields, total_fields)
                    ELSE Zero,
                 total_fields |-> total_fields,
                 matched_fields |-> matched_fields,
                 field_type_accuracy |->
                    [t \in types |-> Frac(correct_of(t), total_of(t))]] :
             field_results \in {DocumentFieldResults(record_data)}})

---------------------------------------------------------------------------
(* Weighted overall accuracy, src/api/evaluator_core.py *)

FracMul(x, y) == Frac(x.num * y.num, x.den * y.den)

FracDiv(x, y) == Frac(x.num * y.den, x.den * y.num)

\* the FieldType values in definition order: U+969C U+7919 U+7B49 U+7D1A,
\* U+969C U+7919 U+985E U+5225, ICD U+8A3A U+65B7,
\* U+8B49 U+660E / U+624B U+518A
Disability_FieldType ==
    <<[name |-> "DISABILITY_LEVEL",
       value |-> <<"zhang", "ai", "deng", "ji">>],
      [name |-> "DISABILITY_CATEGORY",
       value |-> <<"zhang", "ai", "lei", "bie">>],
      [name |-> "ICD_DIAGNOSIS",
       value |-> <<"I", "C", "D", "zhen", "duan">>],
      [name |-> "CERTIFICATE_TYPE",
       value |-> <<"zheng", "ming", "/", "shou", "ce">>]>>

DefaultWeight == Frac(25, 100)

weight_config ==
    [t \in {"DISABILITY_LEVEL", "DISABILITY_CATEGORY", "ICD_DIAGNOSIS",
            "CERTIFICATE_TYPE"} |->
        CASE t = "DISABILITY_LEVEL" -> Frac(3, 10)
          [] t = "DISABILITY_CATEGORY" -> Frac(3, 10)
          [] t = "ICD_DIAGNOSIS" -> Frac(25, 100)
          [] t = "CERTIFICATE_TYPE" -> Frac(15, 100)]

\* the weight of the first FieldType whose value occurs in the field name;
\* first, the same with every field weighing the default
field_weight_default_only(field_name) == DefaultWeight

field_weight(field_name) ==
    LET hits == {i \in 1..Len(Disability_FieldType) :
                    Contains(Disability_FieldType[i].value, field_name)}
    IN IF hits = {} THEN DefaultWeight
       ELSE LET first == CHOOSE i \in hits : \A j \in hits : i <= j
            IN IF Disability_FieldType[first].name \in DOMAIN weight_config
               THEN weight_config[Disability_FieldType[first].name]
               ELSE DefaultWeight

RECURSIVE total_weighted_accuracy(_)
total_weighted_accuracy(results) ==
    IF results = <<>> THEN Zero
    ELSE FracAdd(FracMul(Head(results).accuracy,
                         field_weight(Head(results).field_name)),
                 total_weighted_accuracy(Tail(results)))

RECURSIVE total_weight(_)
total_weight(results) ==
    IF results = <<>> THEN Zero
    ELSE FracAdd(field_weight(Head(results).field_name),
                 total_weight(Tail(results)))

\* results is the dict in insertion order: a sequence of
\* [field_name, accuracy] with distinct field names
calculate_overall_accuracy(results) ==
    IF total_weight(results).num > 0
    THEN FracDiv(total_weighted_accuracy(results), total_weight(results))
    ELSE Zero

---------------------------------------------------------------------------
(* Calls on tables and records *)

\* U+8F15 U+5EA6, U+4E2D U+5EA6
TableCells ==
    {NaN, Cell(<<>>), Cell(<<"qing", "du">>), Cell(<<"zhong", "du">>)}

Tables(cells, ncols) ==
    UNION {[1..n -> [1..ncols -> cells]] : n \in 0..MaxRows}

Mapping(i, c, p) ==
    [field_name |-> DisabilityFieldNames[i],
     correct_col |-> c, predicted_col |-> p]

\* a table of one answer and one prediction column, and one-row tables of
\* two fields whose second prediction column may lie outside the table
DisabilityTableInputs ==
    {[df |-> df, field_mappings |-> <<Mapping(1, 0, 1)>>] :
        df \in Tables(TableCells, 2)}
    \cup {[df |-> <<row>>,
           field_mappings |-> <<Mapping(1, 0, 1), Mapping(2, 2, p)>>] :
            row \in [1..3 -> TableCells], p \in {1, 3}}

DocTableCells ==
    {NaN, Cell(<<"0">>), Cell(<<"Y">>), Cell(<<"a", "b">>)}

DocRecordCells == {NaN, Cell(<<"Y">>), Cell(<<"a", "b">>), Cell(<<"a">>)}

\* U+5099 U+8A3B, U+5F97 U+8ACB U+9818 _ U+91D1 U+984D,
\* U+767C U+6587 U+65E5 U+671F
DocTableFieldNames ==
    {<<"bei", "zhu">>,
     <<"de", "qing3", "ling", "_", "jin", "e2">>,
     <<"fa", "wen", "ri", "qi">>}

\* rows of a case number, the AI value and the human value
DocTableInputs ==
    {[data_rows |-> [i \in 1..Len(t) |-> <<Cell(<<"1">>)>> \o t[i]],
      ai_col |-> 1, human_col |-> 2, field_name |-> f,
      model_name |-> <<"g", "p", "t">>] :
        t \in Tables(DocTableCells, 2), f \in DocTableFieldNames}

DocEntry(f, c, p) ==
    [field_name |-> f, correct_value |-> c, predicted_value |-> p]

DocRecordInputs ==
    UNION {{r \in [1..n -> {DocEntry(f, c, p) :
                                f \in DocTableFieldNames,
                                c \in DocRecordCells, p \in DocRecordCells}] :
                \A i, j \in 1..n :
                    i # j => r[i].field_name # r[j].field_name} :
           n \in 0..MaxFields}

\* field names with one FieldType value or none: U+6B63 U+9762 _ ...,
\* U+5099 U+8A3B
WeightedFieldNames ==
    {<<"zhang", "ai", "deng", "ji">>,
     <<"zheng4", "mian", "_", "zhang", "ai", "lei", "bie">>,
     <<"I", "C", "D", "zhen", "duan">>,
     <<"zheng", "ming", "/", "shou", "ce">>,
     <<"bei", "zhu">>}

Accuracies == {Zero, Frac(1, 3), Frac(1, 2), One}

AccuracyInputs ==
    UNION {{r \in [1..n -> [field_name : WeightedFieldNames,
                            accuracy : Accuracies]] :
                \A i, j \in 1..n :
                    i # j => r[i].field_name # r[j].field_name} :
           n \in 0..MaxFields}

\* the members of FieldType of document_evaluator_core.py
Document_FieldType == {"DATE", "AMOUNT", "BOOLEAN", "TEXT", "JUDGMENT"}

\* a field_type that is no member of FieldType, such as None or a str
NoFieldType == "NONE"

FieldTypeInputs == Document_FieldType \cup {NoFieldType}

InitTable ==
    /\ pc = "ready"
    /\ result = <<>>
    /\ \/ /\ call = "DisabilityDataEvaluator.evaluate_all_records"
          /\ args \in DisabilityTableInputs
       \/ /\ call = "DocumentEvaluatorService.evaluate_field_data"
          /\ args \in DocTableInputs
       \/ /\ call = "DocumentDataEvaluator.evaluate_record_fields"
          /\ args \in [record_data : DocRecordInputs]
       \/ /\ call = "DisabilityDataEvaluator.calculate_overall_accuracy"
          /\ args \in [results : AccuracyInputs]
       \/ /\ call = "DocumentDataEvaluator.normalize_value"
          /\ args \in [value : DocCells, field_type : FieldTypeInputs]
       \/ /\ call = "DocumentDataEvaluator.calculate_field_similarity"
          /\ args \in [correct_value : DocTableCells \ {NaN},
                       predicted_value : DocTableCells \ {NaN},
                       field_type : FieldTypeInputs]

EvaluateAllRecords ==
    /\ pc = "ready"
    /\ call = "DisabilityDataEvaluator.evaluate_all_records"
    /\ Return(Disability_evaluate_all_records(args.df, args.field_mappings))

EvaluateFieldData ==
    /\ pc = "ready"
    /\ call = "DocumentEvaluatorService.evaluate_field_data"
    /\ Return(evaluate_field_data(args.data_rows, args.ai_col, args.human_col,
                                  args.field_name, args.model_name))

DocumentEvaluateRecordFields ==
    /\ pc = "ready"
    /\ call = "DocumentDataEvaluator.evaluate_record_fields"
    /\ Return(Document_evaluate_record_fields(args.record_data))

CalculateOverallAccuracy ==
    /\ pc = "ready"
    /\ call = "DisabilityDataEvaluator.calculate_overall_accuracy"
    /\ Return(calculate_overall_accuracy(args.results))

NormalizeValue ==
    /\ pc = "ready"
    /\ call = "DocumentDataEvaluator.normalize_value"
    /\ Return(normalize_value(args.value, args.field_type))

CalculateFieldSimilarity ==
    /\ pc = "ready"
    /\ call = "DocumentDataEvaluator.calculate_field_similarity"
    /\ Return(calculate_field_similarity(StrValue(args.correct_value.s),
                                         StrValue(args.predicted_value.s),
                                         args.field_type))

NextTable ==
    \/ EvaluateAllRecords
    \/ EvaluateFieldData
    \/ DocumentEvaluateRecordFields
    \/ CalculateOverallAccuracy
    \/ NormalizeValue
    \/ CalculateFieldSimilarity

SpecTable == InitTable /\ [][NextTable]_vars

---------------------------------------------------------------------------
(* Tables that hold the results of several models,
   src/api/evaluator_service.py *)

model_keywords ==
    {<<"g", "e", "m", "i", "n", "i">>, <<"g", "e", "m", "m", "a">>,
     <<"c", "h", "a", "t", "g", "p", "t">>, <<"c", "l", "a", "u", "d", "e">>,
     <<"g", "p", "t">>, <<"l", "l", "a", "m", "a">>, <<"p", "a", "l", "m">>,
     <<"b", "a", "r", "d">>}

\* U+7DE8 U+865F, U+53D7 U+7DE8, U+969C U+7919, U+985E U+5225, ICD,
\* U+5099 U+8A3B, U+8B49 U+660E, U+624B U+518A, U+89E3 U+7B54, LLM,
\* U+8FA8 U+8B58
header_keywords ==
    {<<"bian", "hao">>, <<"shou4", "bian">>, <<"zhang", "ai">>,
     <<"lei", "bie">>, <<"I", "C", "D">>, <<"bei", "zhu">>,
     <<"zheng", "ming">>, <<"shou", "ce">>, <<"jie", "da">>,
     <<"L", "L", "M">>, <<"bian4", "shi2">>}

\* a column label is a str, or an int for a frame read without a header
StrLabel(s) == [kind |-> "str", s |-> s, i |-> 0]

IntLabel(i) == [kind |-> "int", s |-> <<>>, i |-> i]

\* df.columns of a frame read with header=None
RangeColumns(n) == [k \in 1..n |-> IntLabel(k - 1)]

\* [str(cell).strip() if pd.notna(cell) else '' for cell in row]
row_values(row) ==
    [k \in 1..Len(row) |-> IF row[k].na THEN <<>> ELSE strip(row[k].s)]

\* the first cell that holds a model keyword, '' for None
found_model(values) ==
    LET hits == {k \in 1..Len(values) :
                    /\ values[k] # <<>>
                    /\ \E cell_lower \in {lower(values[k])} :
                        \E keyword \in model_keywords :
                            Contains(keyword, cell_lower)}
    IN IF hits = {} THEN <<>>
       ELSE values[CHOOSE k \in hits : \A j \in hits : k <= j]

has_header_keywords(values) ==
    Cardinality({k \in 1..Len(values) :
                    \E keyword \in header_keywords :
                        Contains(keyword, values[k])})

\* any(str(cell).strip() for cell in row_values if pd.notna(cell))
IsDataRow(values) == \E k \in 1..Len(values) : strip(values[k]) # <<>>

AllNa(row) == \A k \in 1..Len(row) : row[k].na

NotAllNa(row) == ~AllNa(row)

\* pd.DataFrame(rows, columns=columns).dropna(how='all'); the rows are
\* lists of str
DataFrame(rows, columns) ==
    [columns |-> columns,
     rows |-> SelectSeq([r \in 1..Len(rows) |->
                            [k \in 1..Len(rows[r]) |-> Cell(rows[r][k])]],
                        NotAllNa)]

\* pd.DataFrame(block_rows[1:], columns=block_rows[0])
HeaderFrame(block_rows) ==
    DataFrame(Tail(block_rows),
              [k \in 1..Len(Head(block_rows)) |-> StrLabel(Head(block_rows)[k])])

\* model_blocks[key] = value on a dict kept in insertion order
DictPut(dict, key, value) ==
    IF \E k \in 1..Len(dict) : dict[k].name = key
    THEN [k \in 1..Len(dict) |->
            IF dict[k].name = key THEN [name |-> key, df |-> value]
            ELSE dict[k]]
    ELSE Append(dict, [name |-> key, df |-> value])

\* the state of the loop over df.iterrows(); None is '' for current_model
\* and -1 for current_header_row
SplitStart ==
    [model_blocks |-> <<>>, current_model |-> <<>>,
     current_header_row |-> -1, block_rows |-> <<>>]

StoreBlock(st, model_df) ==
    IF Len(model_df.rows) > 0
    THEN DictPut(st.model_blocks, st.current_model, model_df)
    ELSE st.model_blocks

\* the block is stored but its rows and header stay for the next model
CloseAtMarker_keeps_rows(st, df_columns, model) ==
    IF st.current_model # <<>> /\ st.block_rows # <<>>
    THEN [st EXCEPT !.model_blocks =
                        StoreBlock(st, IF st.current_header_row # -1
                                       THEN HeaderFrame(st.block_rows)
                                       ELSE DataFrame(st.block_rows,
                                                      df_columns)),
                    !.current_model = model]
    ELSE [st EXCEPT !.current_model = model]

CloseAtMarker(st, df_columns, model) ==
    IF st.current_model # <<>> /\ st.block_rows # <<>>
    THEN [model_blocks |->
            StoreBlock(st, IF st.current_header_row # -1
                           THEN HeaderFrame(st.block_rows)
                           ELSE DataFrame(st.block_rows, df_columns)),
          current_model |-> model,
          current_header_row |-> -1,
          block_rows |-> <<>>]
    ELSE [st EXCEPT !.current_model = model]

\* one iteration of the loop; idx is the row label, counted from 0
SplitRow(st, idx, row, df_columns) ==
    TheOnly({
       IF found_model(values) # <<>>
       THEN CloseAtMarker(st, df_columns, found_model(values))
       ELSE IF /\ st.current_model # <<>>
               /\ st.current_header_row \in {-1, 0}
               /\ has_header_keywords(values) >= 3
       THEN [st EXCEPT !.current_header_row = idx,
                       !.block_rows = Append(st.block_rows, values)]
       ELSE IF st.current_model # <<>> /\ IsDataRow(values)
       THEN [st EXCEPT !.block_rows = Append(st.block_rows, values)]
       ELSE st :
       values \in {row_values(row)}})

RECURSIVE SplitRows(_, _, _, _)
SplitRows(st, idx, df, df_columns) ==
    IF idx >= Len(df) THEN st
    ELSE TheOnly({SplitRows(next, idx + 1, df, df_columns) :
                    next \in {SplitRow(st, idx, df[idx + 1], df_columns)}})

\* the block of the last model
CloseAtEnd(st, df_columns) ==
    IF st.current_model # <<>> /\ st.block_rows # <<>>
    THEN StoreBlock(st, IF st.current_header_row # -1
                           /\ Len(st.block_rows) > 1
                        THEN HeaderFrame(st.block_rows)
                        ELSE DataFrame(st.block_rows, df_columns))
    ELSE st.model_blocks

\* df is the sequence of rows of a frame whose columns are df_columns
split_models_from_dataframe(df, df_columns) ==
    CloseAtEnd(SplitRows(SplitStart, 0, df, df_columns), df_columns)

---------------------------------------------------------------------------
(* Field mappings of a table, src/api/evaluator_service.py *)

DigitChars == <<"0", "1", "2", "3", "4", "5", "6", "7", "8", "9">>

RECURSIVE IntStr(_)
IntStr(i) ==
    IF i < 10 THEN <<DigitChars[i + 1]>>
    ELSE IntStr(i \div 10) \o <<DigitChars[(i % 10) + 1]>>

\* str(col)
LabelStr(label) == IF label.kind = "int" THEN IntStr(label.i) ELSE label.s

\* U+969C U+7919 U+7B49 U+7D1A, U+969C U+7919 U+985E U+5225,
\* ICD U+8A3A U+65B7
FieldLevel == <<"zhang", "ai", "deng", "ji">>

FieldCategory == <<"zhang", "ai", "lei", "bie">>

FieldDiagnosis == <<"I", "C", "D", "zhen", "duan">>

IsLevelColumn(col_str) == Contains(FieldLevel, col_str)

IsCategoryColumn(col_str) == Contains(FieldCategory, col_str)

IsDiagnosisColumn(col_str) ==
    \/ Contains(FieldDiagnosis, col_str)
    \/ Contains(<<"I", "C", "D">>, col_str)
    \/ Contains(<<"zhen", "duan">>, col_str)

IsFieldColumn(field_name, col_str) ==
    IF field_name = FieldLevel THEN IsLevelColumn(col_str)
    ELSE IF field_name = FieldCategory THEN IsCategoryColumn(col_str)
    ELSE IsDiagnosisColumn(col_str)

\* the 0-based positions of the columns of a field, in column order
RECURSIVE ColumnsWhere(_, _, _)
ColumnsWhere(columns, field_name, k) ==
    IF k >= Len(columns) THEN <<>>
    ELSE IF IsFieldColumn(field_name, strip(LabelStr(columns[k + 1])))
    THEN <<k>> \o ColumnsWhere(columns, field_name, k + 1)
    ELSE ColumnsWhere(columns, field_name, k + 1)

FieldMapping(field_name, correct_col, predicted_col) ==
    [field_name |-> field_name,
     correct_col |-> correct_col, predicted_col |-> predicted_col]

\* the pair of the first two columns of a field, by position; in the
\* variant the later column is the answer
NamePair_later_first(field_name, cols) ==
    IF Len(cols) >= 2
    THEN <<FieldMapping(field_name, IntLabel(cols[2]), IntLabel(cols[1]))>>
    ELSE <<>>

NamePair(field_name, cols) ==
    IF Len(cols) >= 2
    THEN <<FieldMapping(field_name, IntLabel(cols[1]), IntLabel(cols[2]))>>
    ELSE <<>>

\* df[col].dropna() as _validate_column_content iterates it: the values of
\* the column when the label occurs once; when it occurs several times
\* df[col] is a frame, dropna drops the rows with a missing value and the
\* iteration yields the column labels
ColumnData(df, col) ==
    LET at == {k \in 1..Len(df.columns) : df.columns[k] = col}
    IN IF Cardinality(at) = 1
       THEN LET k == CHOOSE k \in at : TRUE
                present(row) == ~row[k].na
                kept == SelectSeq(df.rows, present)
            IN [found |-> TRUE, len |-> Len(kept),
                values |-> {kept[r][k].s : r \in 1..Len(kept)}]
       ELSE LET complete(row) == \A k \in at : ~row[k].na
            IN [found |-> at # {},
                len |-> Len(SelectSeq(df.rows, complete)),
                values |-> IF at = {} THEN {} ELSE {LabelStr(col)}]

\* U+8F15 U+5EA6, U+4E2D U+5EA6, U+91CD U+5EA6, U+6975 U+91CD U+5EA6
level_keywords ==
    {<<"qing", "du">>, <<"zhong", "du">>, <<"zhong4", "du">>,
     <<"ji2", "zhong4", "du">>}

\* U+985E, U+5176 U+4ED6, U+7B2C 1 U+985E ... U+7B2C 8 U+985E
category_keywords ==
    {<<"lei">>, <<"qi2", "ta">>}
    \cup {<<"di", DigitChars[n + 1], "lei">> : n \in 1..8}

\* U+3010, U+3011, [, ], U+63DB, U+7B2C
icd_patterns == {<<"[[">>, <<"]]">>, <<"[">>, <<"]">>, <<"huan">>, <<"di">>}

HasAny(keywords, data) ==
    \E val \in data.values : \E keyword \in keywords : Contains(keyword, val)

_validate_column_content(df, correct_col, predicted_col, field_name) ==
    LET correct_data == ColumnData(df, correct_col)
        predicted_data == ColumnData(df, predicted_col)
        keywords == IF field_name = FieldLevel THEN level_keywords
                    ELSE IF field_name = FieldCategory THEN category_keywords
                    ELSE icd_patterns
    IN IF ~correct_data.found \/ ~predicted_data.found THEN FALSE
       ELSE IF correct_data.len = 0 \/ predicted_data.len = 0 THEN FALSE
       ELSE IF field_name \in {FieldLevel, FieldCategory, FieldDiagnosis}
       THEN HasAny(keywords, correct_data) \/ HasAny(keywords, predicted_data)
       ELSE TRUE

\* columns 3/7, 4/9 and 5/10 by label
PositionPairs(columns) ==
    <<FieldMapping(FieldLevel, columns[3], columns[7]),
      FieldMapping(FieldCategory, columns[4], columns[9]),
      FieldMapping(FieldDiagnosis, columns[5], columns[10])>>

\* U+89E3 U+7B54, LLM U+8FA8 U+8B58, U+7DE8 U+865F, U+53D7 U+7DE8
LabelAnswer == StrLabel(<<"jie", "da">>)

LabelLLM == StrLabel(<<"L", "L", "M", "bian4", "shi2">>)

LabelNumber == StrLabel(<<"bian", "hao">>)

LabelSubject == StrLabel(<<"shou4", "bian">>)

HasColumn(columns, label) == \E k \in 1..Len(columns) : columns[k] = label

\* the field and its ".1" duplicate, the last column of each name
SuffixPair(columns, field_name) ==
    LET plain == {k \in 1..Len(columns) : LabelStr(columns[k]) = field_name}
        dotted == {k \in 1..Len(columns) :
                    LabelStr(columns[k]) = field_name \o <<".", "1">>}
        last(S) == CHOOSE k \in S : \A j \in S : j <= k
    IN IF plain # {} /\ dotted # {}
       THEN <<FieldMapping(field_name, columns[last(plain)],
                           columns[last(dotted)])>>
       ELSE <<>>

\* None is the empty mapping: the caller tests the result for truth
_detect_answer_llm_format(df) ==
    LET columns == df.columns
        mappings == SuffixPair(columns, FieldLevel)
                    \o SuffixPair(columns, FieldCategory)
                    \o SuffixPair(columns, FieldDiagnosis)
    IN IF Len(mappings) >= 1 THEN mappings
       ELSE IF /\ Len(columns) >= 10
               /\ columns[1] = LabelNumber
               /\ columns[2] = LabelSubject
       THEN PositionPairs(columns)
       ELSE <<>>

_detect_by_position(df) ==
    LET columns == df.columns
        valid(mapping) ==
            _validate_column_content(df, mapping.correct_col,
                                     mapping.predicted_col, mapping.field_name)
    IN IF HasColumn(columns, LabelAnswer) /\ HasColumn(columns, LabelLLM)
       THEN _detect_answer_llm_format(df)
       ELSE IF Len(columns) >= 10
       THEN SelectSeq(PositionPairs(columns), valid)
       ELSE <<>>

_detect_column_mappings(df) ==
    LET columns == df.columns
        mappings ==
            NamePair(FieldLevel, ColumnsWhere(columns, FieldLevel, 0))
            \o NamePair(FieldCategory, ColumnsWhere(columns, FieldCategory, 0))
            \o NamePair(FieldDiagnosis,
                        ColumnsWhere(columns, FieldDiagnosis, 0))
    IN IF Len(mappings) >= 1 THEN mappings
       ELSE _detect_by_position(df)

\* U+6B63 U+9762 _ and U+53CD U+9762 _ before the field name
default_field_mappings ==
    LET front(f) == StrLabel(<<"zheng4", "mian", "_">> \o f)
        back(f) == StrLabel(<<"fan3", "mian", "_">> \o f)
    IN <<FieldMapping(FieldLevel, front(FieldLevel), back(FieldLevel)),
         FieldMapping(FieldCategory, front(FieldCategory),
                      back(FieldCategory)),
         FieldMapping(FieldDiagnosis, front(FieldDiagnosis),
                      back(FieldDiagnosis))>>

\* col in df.columns
InColumns(col, columns) == HasColumn(columns, col)

\* the outcome of _validate_required_columns: the field mappings of the
\* evaluator after the call and whether DataValidationError was raised
_validate_required_columns(df, field_mappings) ==
    LET detected_mappings == _detect_column_mappings(df)
        missing_columns ==
            {k \in 1..Len(field_mappings) :
                \/ ~InColumns(field_mappings[k].correct_col, df.columns)
                \/ ~InColumns(field_mappings[k].predicted_col, df.columns)}
    IN IF detected_mappings # <<>>
       THEN [field_mappings |-> detected_mappings, raised |-> ""]
       ELSE IF missing_columns # {}
       THEN [field_mappings |-> field_mappings,
             raised |-> "DataValidationError"]
       ELSE [field_mappings |-> field_mappings, raised |-> ""]

---------------------------------------------------------------------------
(* Evaluation of one table under the field mappings of the evaluator,
   src/api/evaluator_core.py *)

Occurrences(col, columns) == {k \in 1..Len(columns) : columns[k] = col}

\* correct_exists / predicted_exists
ColumnExists(col, columns) ==
    IF col.kind = "int" THEN col.i < Len(columns)
    ELSE Occurrences(col, columns) # {}

\* the 0-based position a locator reads: the position itself, the column of
\* that name, and of several columns of that name the first for the answer
\* and the second for the prediction
Locate(col, columns, nth) ==
    IF col.kind = "int" THEN col.i
    ELSE LET at == Occurrences(col, columns)
             first == CHOOSE k \in at : \A j \in at : k <= j
             second == CHOOSE k \in at \ {first} : \A j \in at \ {first} : k <= j
         IN IF nth = 2 /\ Cardinality(at) > 1 THEN second - 1 ELSE first - 1

\* len(df[col].dropna()) or len(df.iloc[:, col].dropna())
DataCount(df, col) ==
    IF col.kind = "int"
    THEN Cardinality({r \in 1..Len(df.rows) : ~iloc(df.rows[r], col.i).na})
    ELSE ColumnData(df, col).len

RECURSIVE SumOfFractions(_)
SumOfFractions(scores) ==
    IF scores = <<>> THEN Zero
    ELSE FracAdd(Head(scores), SumOfFractions(Tail(scores)))

\* the values are the cells of the two columns, row by row
evaluate_field(correct_values, predicted_values, field_name) ==
    TheOnly({[field_name |-> field_name,
              accuracy |-> FracDivInt(SumOfFractions(similarity_scores),
                                      Len(similarity_scores)),
              exact_matches |->
                Cardinality({r \in 1..Len(similarity_scores) :
                                FracLeq(ExactMatchThreshold,
                                        similarity_scores[r])}),
              total_records |-> Len(correct_values),
              similarity_scores |-> similarity_scores] :
             similarity_scores \in
                {[r \in 1..Len(correct_values) |->
                    calculate_similarity(correct_values[r],
                                         predicted_values[r])]}})

RECURSIVE evaluate_all_fields(_, _)
evaluate_all_fields(df, field_mappings) ==
    IF field_mappings = <<>> THEN <<>>
    ELSE LET mapping == Head(field_mappings)
             rest == evaluate_all_fields(df, Tail(field_mappings))
             correct_at == Locate(mapping.correct_col, df.columns, 1)
             predicted_at == Locate(mapping.predicted_col, df.columns, 2)
         IN IF /\ ColumnExists(mapping.correct_col, df.columns)
               /\ ColumnExists(mapping.predicted_col, df.columns)
               /\ DataCount(df, mapping.correct_col) > 0
               /\ DataCount(df, mapping.predicted_col) > 0
            THEN <<evaluate_field(
                        [r \in 1..Len(df.rows) |-> iloc(df.rows[r], correct_at)],
                        [r \in 1..Len(df.rows) |->
                            iloc(df.rows[r], predicted_at)],
                        mapping.field_name)>> \o rest
            ELSE rest

\* row.get(col) is a Series when several columns bear the name, and the
\* truth of pd.notna(Series) is a ValueError
RecordEvaluationRaises(df, field_mappings) ==
    \E r \in 1..Len(df.rows), m \in 1..Len(field_mappings) :
        LET correct_col == field_mappings[m].correct_col
            predicted_col == field_mappings[m].predicted_col
            several(col) ==
                col.kind = "str" /\ Cardinality(Occurrences(col, df.columns)) > 1
        IN /\ ColumnExists(correct_col, df.columns)
           /\ ColumnExists(predicted_col, df.columns)
           /\ \/ several(correct_col)
              \/ /\ ~iloc(df.rows[r], Locate(correct_col, df.columns, 1)).na
                 /\ several(predicted_col)

\* the mappings with the positions their locators read; a column that does
\* not exist lies behind the last one
PositionsOf(field_mappings, columns) ==
    [m \in 1..Len(field_mappings) |->
        [field_name |-> field_mappings[m].field_name,
         correct_col |->
            IF ColumnExists(field_mappings[m].correct_col, columns)
            THEN Locate(field_mappings[m].correct_col, columns, 1)
            ELSE Len(columns),
         predicted_col |->
            IF ColumnExists(field_mappings[m].predicted_col, columns)
            THEN Locate(field_mappings[m].predicted_col, columns, 1)
            ELSE Len(columns)]]

\* validation and evaluation of one table: the field mappings left in the
\* evaluator, the exception raised if any, and the results
EvaluateTable(df, field_mappings) ==
    TheOnly({IF validated.raised # ""
             THEN [field_mappings |-> validated.field_mappings,
                   raised |-> validated.raised,
                   field_results |-> <<>>, record_evaluations |-> <<>>,
                   overall_accuracy |-> Zero]
             ELSE IF RecordEvaluationRaises(df, validated.field_mappings)
             THEN [field_mappings |-> validated.field_mappings,
                   raised |-> "ValueError",
                   field_results |-> <<>>, record_evaluations |-> <<>>,
                   overall_accuracy |-> Zero]
             ELSE TheOnly({[field_mappings |-> validated.field_mappings,
                            raised |-> "",
                            field_results |-> field_results,
                            record_evaluations |->
                                Disability_evaluate_all_records(
                                    df.rows,
                                    PositionsOf(validated.field_mappings,
                                                df.columns)),
                            overall_accuracy |->
                                calculate_overall_accuracy(field_results)] :
                           field_results \in
                                {evaluate_all_fields(
                                    df, validated.field_mappings)}}) :
             validated \in {_validate_required_columns(df, field_mappings)}})

---------------------------------------------------------------------------
(* Calls that split a table into the blocks of its models *)

\* the columns of the tables split
SplitCols == RangeColumns(3)

MarkerRows ==
    {<<Cell(<<"g", "p", "t">>), NaN, NaN>>,
     <<NaN, Cell(<<" ", "B", "a", "r", "d">>), NaN>>}

\* U+7DE8 U+865F | U+969C U+7919 U+7B49 U+7D1A | U+969C U+7919 U+7B49 U+7D1A
HeaderRepeated ==
    <<Cell(<<"bian", "hao">>), Cell(FieldLevel), Cell(FieldLevel)>>

\* U+7DE8 U+865F | U+53D7 U+7DE8 | U+969C U+7919 U+7B49 U+7D1A
HeaderPlain ==
    <<Cell(<<"bian", "hao">>), Cell(<<"shou4", "bian">>), Cell(FieldLevel)>>

HeaderRows == {HeaderRepeated, HeaderPlain}

DataRowLight ==
    <<Cell(<<"1">>), Cell(<<"qing", "du">>), Cell(<<"qing", "du">>)>>

DataRowModerate ==
    <<Cell(<<"2">>), Cell(<<"zhong", "du">>), Cell(<<" ", "qing", "du">>)>>

BlankRow == <<NaN, NaN, NaN>>

\* a stretch of a table: at most one marker row, at most one header row,
\* and no data row, one, or two and a blank row
Segments ==
    {marker \o header \o data :
        marker \in {<<>>} \cup {<<row>> : row \in MarkerRows},
        header \in {<<>>} \cup {<<row>> : row \in HeaderRows},
        data \in {<<>>, <<DataRowLight>>,
                  <<DataRowModerate, DataRowLight, BlankRow>>}}

RECURSIVE SegmentTables(_)
SegmentTables(n) ==
    IF n = 0 THEN {<<>>}
    ELSE SegmentTables(n - 1)
            \cup {table \o segment :
                    table \in SegmentTables(n - 1), segment \in Segments}

SplitInputs ==
    {[df |-> df, columns |-> SplitCols] : df \in SegmentTables(MaxBlocks)}

InitSplit ==
    /\ call = "DisabilityDataEvaluatorService.split_models_from_dataframe"
    /\ args \in SplitInputs
    /\ result = <<>>
    /\ pc = "ready"

SplitModelsFromDataframe ==
    /\ pc = "ready"
    /\ call = "DisabilityDataEvaluatorService.split_models_from_dataframe"
    /\ result' = [model_blocks |->
                    split_models_from_dataframe(args.df, args.columns)]
    /\ pc' = "split"
    /\ UNCHANGED <<call, args>>

\* _detect_column_mappings on every block of the split
DetectColumnMappings ==
    /\ pc = "split"
    /\ result' = [model_blocks |-> result.model_blocks,
                  column_mappings |->
                    [b \in 1..Len(result.model_blocks) |->
                        _detect_column_mappings(result.model_blocks[b].df)]]
    /\ pc' = "done"
    /\ UNCHANGED <<call, args>>

NextSplit == SplitModelsFromDataframe \/ DetectColumnMappings

SpecSplit == InitSplit /\ [][NextSplit]_vars

---------------------------------------------------------------------------
(* Processing of the blocks of a file, src/api/evaluator_service.py, and of
   a document file, src/api/document_evaluator_service.py *)

\* the entry of all_model_results for a block; the 'data' entry is the block
ModelResult(name, evaluated) ==
    [name |-> name,
     field_results |-> evaluated.field_results,
     record_evaluations |-> evaluated.record_evaluations,
     overall_accuracy |-> evaluated.overall_accuracy]

\* the loop of _process_multiple_models before its first block: the
\* evaluator of the service with its field mappings, the blocks done and
\* the exception each one ended in
ProcessStart(field_mappings) ==
    [field_mappings |-> field_mappings,
     all_model_results |-> <<>>,
     outcomes |-> <<>>,
     raised |-> ""]

\* except Exception: continue, with n the number of blocks; in the variant
\* the exception ends the loop and the blocks behind it are not looked at
SkipModel_abandons_rest(st, evaluated, n) ==
    [st EXCEPT !.field_mappings = evaluated.field_mappings,
               !.outcomes = st.outcomes
                    \o [k \in 1..(n - Len(st.outcomes)) |-> evaluated.raised]]

SkipModel(st, evaluated, n) ==
    [st EXCEPT !.field_mappings = evaluated.field_mappings,
               !.outcomes = Append(st.outcomes, evaluated.raised)]

\* one iteration of the loop over model_blocks.items()
ProcessBlock(st, block, n) ==
    TheOnly({IF evaluated.raised # "" THEN SkipModel(st, evaluated, n)
             ELSE [st EXCEPT !.field_mappings = evaluated.field_mappings,
                             !.all_model_results =
                                Append(st.all_model_results,
                                       ModelResult(block.name, evaluated)),
                             !.outcomes = Append(st.outcomes, "")] :
             evaluated \in {EvaluateTable(block.df, st.field_mappings)}})

\* what the caller of process_excel_file sees of an exception raised under
\* it: the four errors of the service pass, any other is wrapped
ServiceErrors ==
    {"FileProcessingError", "DataValidationError", "EvaluationError",
     "ExcelGenerationError"}

process_excel_file_raises(raised) ==
    IF raised \in ServiceErrors THEN raised ELSE "EvaluationError"

\* _process_single_model on the whole table
_process_single_model(df, field_mappings) ==
    TheOnly({[field_mappings |-> evaluated.field_mappings,
              all_model_results |->
                IF evaluated.raised = ""
                THEN <<ModelResult(<<>>, evaluated)>> ELSE <<>>,
              outcomes |-> <<evaluated.raised>>,
              raised |->
                IF evaluated.raised = "" THEN ""
                ELSE process_excel_file_raises(evaluated.raised)] :
             evaluated \in {EvaluateTable(df, field_mappings)}})

\* U+4EBA U+5DE5
human_markers ==
    {<<"ren", "gong">>, <<"h", "u", "m", "a", "n">>,
     <<"m", "a", "n", "u", "a", "l">>, <<"H", "u", "m", "a", "n">>,
     <<"M", "a", "n", "u", "a", "l">>}

\* the markers the field of the AI column is tested against
previous_field_markers ==
    {<<"ren", "gong">>, <<"h", "u", "m", "a", "n">>,
     <<"m", "a", "n", "u", "a", "l">>}

\* U+6848 U+4EF6 U+865F, U+50B5 U+52D9 U+4EBA ID
key_fields ==
    {<<"an", "jian", "hao">>, <<"zhai", "wu", "ren", "I", "D">>}

\* the state of the loop over the columns; None is '' for current_model and
\* -1 for ai_column
ParseStart ==
    [field_evaluations |-> <<>>, current_model |-> <<>>, ai_column |-> -1]

\* field_evaluations[key] = value on a dict kept in insertion order
EvaluationPut(dict, key, value) ==
    IF \E k \in 1..Len(dict) : dict[k].key = key
    THEN [k \in 1..Len(dict) |->
            IF dict[k].key = key THEN [key |-> key, evaluation |-> value]
            ELSE dict[k]]
    ELSE Append(dict, [key |-> key, evaluation |-> value])

\* the model of a column, when the cell of the model row names one
ParseModel(st, model_name, col_idx) ==
    IF /\ ~model_name.na
       /\ strip(model_name.s) # <<>>
       /\ strip(model_name.s) # <<"M", "O", "D", "E", "L">>
    THEN [st EXCEPT !.current_model = strip(model_name.s),
                    !.ai_column = col_idx]
    ELSE st

\* the field of a column, after the model of the column is taken
ParseField(st, field_row, data_rows, col_idx) ==
    LET field_name == iloc(field_row, col_idx)
        field_str == strip(field_name.s)
        prev_field == iloc(field_row, st.ai_column)
        ai_field_name ==
            IF ~prev_field.na /\ strip(prev_field.s) \notin previous_field_markers
            THEN strip(prev_field.s) ELSE <<>>
    IN IF field_name.na \/ field_str = <<>> THEN st
       ELSE IF field_str \in human_markers
       THEN IF /\ st.current_model # <<>>
               /\ st.ai_column # -1
               /\ ai_field_name # <<>>
               /\ ai_field_name \notin key_fields
            THEN [st EXCEPT !.field_evaluations =
                    EvaluationPut(st.field_evaluations,
                                  ai_field_name \o <<"_">> \o st.current_model,
                                  evaluate_field_data(data_rows, st.ai_column,
                                                      col_idx, ai_field_name,
                                                      st.current_model))]
            ELSE st
       ELSE IF st.current_model # <<>> /\ field_str \notin key_fields
       THEN [st EXCEPT !.ai_column = col_idx]
       ELSE st

RECURSIVE ParseColumns(_, _, _, _, _)
ParseColumns(st, model_row, field_row, data_rows, col_idx) ==
    IF col_idx >= Len(field_row) THEN st
    ELSE TheOnly({ParseColumns(
                    ParseField(with_model, field_row, data_rows, col_idx),
                    model_row, field_row, data_rows, col_idx + 1) :
                  with_model \in
                    {ParseModel(st, iloc(model_row, col_idx), col_idx)}})

\* df is the sequence of the rows of the sheet, read without a header
parse_horizontal_document_data(df) ==
    IF Len(df) < 3
    THEN [field_evaluations |-> <<>>, raised |-> "DataValidationError"]
    ELSE [field_evaluations |->
            ParseColumns(ParseStart, df[1], df[2], SubSeq(df, 3, Len(df)), 0)
                .field_evaluations,
          raised |-> ""]

\* except Exception: raise EvaluationError around the whole body
process_document_file(df) ==
    TheOnly({IF df = <<>>
             THEN [field_evaluations |-> <<>>, raised |-> "EvaluationError",
                   cause |-> "FileProcessingError"]
             ELSE IF evaluation_results.raised # ""
             THEN [field_evaluations |-> <<>>, raised |-> "EvaluationError",
                   cause |-> evaluation_results.raised]
             ELSE IF evaluation_results.field_evaluations = <<>>
             THEN [field_evaluations |-> <<>>, raised |-> "EvaluationError",
                   cause |-> "DataValidationError"]
             ELSE [field_evaluations |-> evaluation_results.field_evaluations,
                   raised |-> "", cause |-> ""] :
             evaluation_results \in {parse_horizontal_document_data(df)}})

---------------------------------------------------------------------------
(* Calls that process the blocks of a file *)

\* a block whose header names the level twice
BlockRepeated ==
    HeaderFrame(<<row_values(HeaderRepeated), row_values(DataRowLight),
                  row_values(DataRowModerate)>>)

\* a block whose header names every field once
BlockPlain ==
    HeaderFrame(<<row_values(HeaderPlain), row_values(DataRowLight)>>)

\* a block without a header row, under the columns of the sheet
BlockNoHeader == DataFrame(<<row_values(DataRowLight)>>, SplitCols)

\* a block of ten columns whose 4th and 9th are both named U+985E U+5225
BlockTen ==
    [columns |->
        [k \in 1..10 |->
            IF k = 1 THEN LabelNumber
            ELSE IF k = 2 THEN LabelSubject
            ELSE IF k \in {4, 9} THEN StrLabel(<<"lei", "bie">>)
            ELSE StrLabel(<<"bei", "zhu">>)],
     rows |-> <<[k \in 1..10 |-> Cell(<<"1">>)]>>]

BlockFrames == {BlockRepeated, BlockPlain, BlockNoHeader, BlockTen}

\* the name of the k-th block: gpt1, gpt2, ...
BlockName(k) == <<"g", "p", "t">> \o IntStr(k)

RECURSIVE BlockSequences(_)
BlockSequences(n) ==
    IF n = 0 THEN {<<>>}
    ELSE {Append(blocks, [name |-> BlockName(n), df |-> df]) :
            blocks \in BlockSequences(n - 1), df \in BlockFrames}

\* the field mappings of the evaluator when the request arrives: those of
\* the constructor, or those an earlier request has left in the service
EvaluatorFieldMappings ==
    {default_field_mappings,
     <<FieldMapping(FieldLevel, IntLabel(1), IntLabel(2))>>}

\* process_excel_file takes this path for more than one block
MultipleModelInputs ==
    {[model_blocks |-> model_blocks, field_mappings |-> field_mappings] :
        model_blocks \in UNION {BlockSequences(n) : n \in 2..MaxModels},
        field_mappings \in EvaluatorFieldMappings}

SingleModelInputs ==
    {[df |-> df, field_mappings |-> field_mappings] :
        df \in BlockFrames, field_mappings \in EvaluatorFieldMappings}

\* U+5099 U+8A3B and U+4EBA U+5DE5 in the row of the field names
DocumentModelCells == {NaN, Cell(<<"g", "p", "t">>)}

DocumentFieldCells == {NaN, Cell(<<"bei", "zhu">>), Cell(<<"ren", "gong">>)}

DocumentDataRows ==
    {<<Cell(<<"Y">>), Cell(<<"Y">>), Cell(<<"a">>)>>,
     <<Cell(<<"a">>), NaN, Cell(<<"Y">>)>>}

DocumentSheets ==
    {<<>>}
    \cup {<<model_row, field_row>> \o data :
            model_row \in [1..3 -> DocumentModelCells],
            field_row \in [1..3 -> DocumentFieldCells],
            data \in {<<>>} \cup {<<row>> : row \in DocumentDataRows}}

DocumentFileInputs == {[df |-> df] : df \in DocumentSheets}

InitProcess ==
    /\ \/ /\ call = "DisabilityDataEvaluatorService._process_multiple_models"
          /\ args \in MultipleModelInputs
       \/ /\ call = "DisabilityDataEvaluatorService._process_single_model"
          /\ args \in SingleModelInputs
       \/ /\ call = "DocumentEvaluatorService.process_document_file"
          /\ args \in DocumentFileInputs
    /\ result = <<>>
    /\ pc = "ready"

\* all_model_results = {} before the loop
ProcessMultipleModels ==
    /\ pc = "ready"
    /\ call = "DisabilityDataEvaluatorService._process_multiple_models"
    /\ result' = ProcessStart(args.field_mappings)
    /\ pc' = "loop"
    /\ UNCHANGED <<call, args>>

\* the body of the loop for the next block
ProcessModel ==
    /\ pc = "loop"
    /\ Len(result.outcomes) < Len(args.model_blocks)
    /\ result' = ProcessBlock(result,
                              args.model_blocks[Len(result.outcomes) + 1],
                              Len(args.model_blocks))
    /\ UNCHANGED <<call, args, pc>>

\* the report on the blocks in all_model_results
GenerateMultiModelExcel ==
    /\ pc = "loop"
    /\ Len(result.outcomes) = Len(args.model_blocks)
    /\ result.all_model_results # <<>>
    /\ pc' = "done"
    /\ UNCHANGED <<call, args, result>>

\* if not all_model_results: raise EvaluationError
RaiseAllModelsFailed ==
    /\ pc = "loop"
    /\ Len(result.outcomes) = Len(args.model_blocks)
    /\ result.all_model_results = <<>>
    /\ result' = [result EXCEPT !.raised = "EvaluationError"]
    /\ pc' = "raised"
    /\ UNCHANGED <<call, args>>

ProcessSingleModel ==
    /\ pc = "ready"
    /\ call = "DisabilityDataEvaluatorService._process_single_model"
    /\ result' = _process_single_model(args.df, args.field_mappings)
    /\ pc' = IF result'.raised = "" THEN "done" ELSE "raised"
    /\ UNCHANGED <<call, args>>

ProcessDocumentFile ==
    /\ pc = "ready"
    /\ call = "DocumentEvaluatorService.process_document_file"
    /\ result' = process_document_file(args.df)
    /\ pc' = IF result'.raised = "" THEN "done" ELSE "raised"
    /\ UNCHANGED <<call, args>>

NextProcess ==
    \/ ProcessMultipleModels
    \/ ProcessModel
    \/ GenerateMultiModelExcel
    \/ RaiseAllModelsFailed
    \/ ProcessSingleModel
    \/ ProcessDocumentFile

SpecProcess == InitProcess /\ [][NextProcess]_vars

---------------------------------------------------------------------------
(* Calls that detect the field mappings of a table *)

\* the names a column of a narrow table bears
NarrowLabels ==
    {StrLabel(FieldLevel), StrLabel(<<" ">> \o FieldLevel \o <<".", "1">>),
     StrLabel(FieldCategory), StrLabel(<<"I", "C", "D">>),
     StrLabel(<<"bian", "hao">>)}

RECURSIVE LabelSequences(_)
LabelSequences(n) ==
    IF n = 0 THEN {<<>>}
    ELSE LabelSequences(n - 1)
            \cup {Append(columns, label) :
                    columns \in LabelSequences(n - 1), label \in NarrowLabels}

\* one row of U+8F15 U+5EA6 under every column
NarrowFrames ==
    {[columns |-> columns,
      rows |-> <<[k \in 1..Len(columns) |-> Cell(<<"qing", "du">>)]>>] :
        columns \in LabelSequences(MaxCols) \ {<<>>}}

PlainLabel(k) == StrLabel(<<"c">> \o IntStr(k))

\* the headers of a wide table
WideStyles ==
    {"range", "plain", "answer", "answer_late", "twice", "one_name",
     "two_names"}

WideLabel(style, k) ==
    IF style = "range" THEN IntLabel(k - 1)
    ELSE IF style = "answer" /\ k = 1 THEN LabelNumber
    ELSE IF style = "answer" /\ k = 2 THEN LabelSubject
    ELSE IF style \in {"answer", "answer_late"} /\ k = 6 THEN LabelAnswer
    ELSE IF style \in {"answer", "answer_late"} /\ k = 8 THEN LabelLLM
    ELSE IF style = "twice" /\ k \in {4, 9} THEN StrLabel(<<"lei", "bie">>)
    ELSE IF style = "one_name" /\ k = 3 THEN StrLabel(FieldLevel)
    ELSE IF style = "two_names" /\ k \in {3, 7} THEN StrLabel(FieldLevel)
    ELSE PlainLabel(k)

\* the cells of a pair of columns: a value of the field, another value,
\* nothing
PairCells(keyword) ==
    {<<Cell(keyword), Cell(<<"x">>)>>, <<Cell(<<"x">>), Cell(<<"x">>)>>,
     <<NaN, Cell(keyword)>>}

WideRow(n, level, category, diagnosis) ==
    [k \in 1..n |->
        IF k = 3 THEN level[1] ELSE IF k = 7 THEN level[2]
        ELSE IF k = 4 THEN category[1] ELSE IF k = 9 THEN category[2]
        ELSE IF k = 5 THEN diagnosis[1]
        ELSE IF k = 10 THEN diagnosis[2]
        ELSE Cell(<<"x">>)]

\* tables of 9, 10 and 11 columns with one row
WideFrames ==
    {[columns |-> [k \in 1..n |-> WideLabel(style, k)],
      rows |-> <<WideRow(n, level, category, diagnosis)>>] :
        n \in {9, 10, 11}, style \in WideStyles,
        level \in PairCells(<<"qing", "du">>),
        category \in PairCells(<<"di", "1", "lei">>) \ {<<NaN, Cell(<<"di", "1", "lei">>)>>},
        diagnosis \in PairCells(<<"huan">>) \ {<<NaN, Cell(<<"huan">>)>>}}

MappingInputs == {[df |-> df] : df \in NarrowFrames \cup WideFrames}

InitMapping ==
    /\ \/ /\ call = "DisabilityDataEvaluatorService._detect_column_mappings"
          /\ args \in MappingInputs
       \/ /\ call = "DisabilityDataEvaluatorService._detect_by_position"
          /\ args \in {[df |-> df] : df \in WideFrames}
    /\ result = <<>>
    /\ pc = "ready"

DetectColumnMappingsOfTable ==
    /\ pc = "ready"
    /\ call = "DisabilityDataEvaluatorService._detect_column_mappings"
    /\ Return([mappings |-> _detect_column_mappings(args.df)])

DetectByPosition ==
    /\ pc = "ready"
    /\ call = "DisabilityDataEvaluatorService._detect_by_position"
    /\ Return([mappings |-> _detect_by_position(args.df)])

NextMapping == DetectColumnMappingsOfTable \/ DetectByPosition

SpecMapping == InitMapping /\ [][NextMapping]_vars

---------------------------------------------------------------------------
(* Properties *)

\* C1: for non-empty normalized reference and hypothesis, calculate_cer
\* returns min(1, Levenshtein(reference, hypothesis) / len(reference)).
C1_CerDividesByReferenceLength ==
    (pc = "done" /\ call = "DisabilityDataEvaluator.calculate_ocr_metrics")
    => LET ref_norm == normalize_text(args.reference)
           hyp_norm == normalize_text(args.hypothesis)
       IN (ref_norm # <<>> /\ hyp_norm # <<>>)
          => result.cer =
                FracMin(One, Frac(dp_edit_distance(ref_norm, hyp_norm),
                                  Len(ref_norm)))

C3_DocumentFieldResultWithinUnitInterval ==
    (pc = "done" /\ call = "DocumentDataEvaluator.evaluate_single_field")
    => /\ FracLeq(Zero, result.similarity) /\ FracLeq(result.similarity, One)
       /\ FracLeq(Zero, result.cer) /\ FracLeq(result.cer, One)
       /\ FracLeq(Zero, result.wer) /\ FracLeq(result.wer, One)

\* C4: the edit distance is symmetric, _edit_distance(a, b) =
\* _edit_distance(b, a) for character sequences and token lists, and so is
\* the distance of the table inside _calculate_edit_distance_rate.
C4_EditDistanceSymmetric ==
    /\ (pc = "done" /\ call = "DocumentDataEvaluator._edit_distance")
       => result = _edit_distance(args.seq2, args.seq1)
    /\ (pc = "done"
        /\ call = "DisabilityDataEvaluator._calculate_edit_distance_rate")
       => /\ dp_edit_distance(args.seq1, args.seq2)
                = dp_edit_distance(args.seq2, args.seq1)
          /\ result = _calculate_edit_distance_rate(args.seq2, args.seq1)

\* C4 witness: a distance between sequences of different lengths that needs a
\* substitution besides the insertions.
C4_Witness ==
    /\ pc = "done"
    /\ call = "DocumentDataEvaluator._edit_distance"
    /\ Len(args.seq1) < Len(args.seq2)
    /\ args.seq1 # <<>>
    /\ result > Len(args.seq2) - Len(args.seq1)

\* C5: for every string s, the empty one included, the CER of s against
\* itself is 0 and the CER-based similarity of s against itself is 1, in
\* both evaluators.
C5_Identity ==
    /\ (pc = "done" /\ call = "DisabilityDataEvaluator.calculate_ocr_metrics"
        /\ args.reference = args.hypothesis)
       => (result.cer = Zero /\ result.similarity = One)
    /\ (pc = "done" /\ call = "DisabilityDataEvaluator.calculate_similarity"
        /\ args.reference = args.hypothesis)
       => result = One
    /\ (pc = "done" /\ call = "DocumentDataEvaluator.calculate_cer"
        /\ args.correct = args.predicted)
       => result = Zero
    /\ (pc = "done" /\ call = "DocumentDataEvaluator.calculate_text_similarity"
        /\ args.correct = args.predicted)
       => result = One

\* C5 witness: a string of several characters was compared with itself.
C5_Witness ==
    /\ pc = "done"
    /\ call = "DisabilityDataEvaluator.calculate_ocr_metrics"
    /\ args.reference = args.hypothesis
    /\ Len(normalize_text(args.reference)) >= 2
    /\ result.cer = Zero

\* C6: the CER is 0 when reference and hypothesis are both empty or missing
\* and exactly 1 when exactly one of them is, whatever the length of the
\* other.  Empty is what the evaluator compares: after normalize_text in
\* DisabilityDataEvaluator, the string itself in DocumentDataEvaluator.
C6_EmptyOperands ==
    /\ (pc = "done" /\ call = "DisabilityDataEvaluator.calculate_ocr_metrics")
       => LET ref_empty == normalize_text(args.reference) = <<>>
              hyp_empty == normalize_text(args.hypothesis) = <<>>
          IN /\ (ref_empty /\ hyp_empty) => result.cer = Zero
             /\ (ref_empty # hyp_empty) => result.cer = One
    /\ (pc = "done" /\ call = "DocumentDataEvaluator.calculate_cer")
       => /\ (args.correct = <<>> /\ args.predicted = <<>>) => result = Zero
          /\ ((args.correct = <<>>) # (args.predicted = <<>>))
             => result = One

\* C6 witness: a missing reference was scored against a hypothesis of
\* several characters.
C6_Witness ==
    /\ pc = "done"
    /\ call = "DisabilityDataEvaluator.calculate_ocr_metrics"
    /\ args.reference.na
    /\ Len(normalize_text(args.hypothesis)) >= 2
    /\ result.cer = One

\* C7 as stated: for ground truth "qing du" (U+8F15 U+5EA6) and prediction
\* "zhong du" (U+4E2D U+5EA6) the edit distance is 2 over a reference length
\* of 2, the CER is 1.0, the similarity 0.0 and is_exact_match false.
C7_DistanceTwo ==
    (pc = "done" /\ call = "DisabilityDataEvaluator.evaluate_record_fields")
    => \A i \in 1..Len(result.field_results) :
        (/\ result.field_results[i].correct_value = <<"qing", "du">>
         /\ result.field_results[i].predicted_value = <<"zhong", "du">>)
        => /\ dp_edit_distance(<<"qing", "du">>, <<"zhong", "du">>) = 2
           /\ result.field_results[i].cer = One
           /\ result.field_results[i].similarity = Zero
           /\ ~result.field_results[i].is_exact_match

\* C7 amended: for ground truth "qing du" and prediction "zhong du" the edit
\* distance is 1 over a reference length of 2, the CER is 0.5, the
\* similarity 0.5 and is_exact_match false.
C7_DistanceOne ==
    (pc = "done" /\ call = "DisabilityDataEvaluator.evaluate_record_fields")
    => \A i \in 1..Len(result.field_results) :
        (/\ result.field_results[i].correct_value = <<"qing", "du">>
         /\ result.field_results[i].predicted_value = <<"zhong", "du">>)
        => /\ dp_edit_distance(<<"qing", "du">>, <<"zhong", "du">>) = 1
           /\ result.field_results[i].cer = Frac(1, 2)
           /\ result.field_results[i].similarity = Frac(1, 2)
           /\ ~result.field_results[i].is_exact_match

\* C7 witness: a record with that field was evaluated.
C7_Witness ==
    /\ pc = "done"
    /\ call = "DisabilityDataEvaluator.evaluate_record_fields"
    /\ \E i \in 1..Len(result.field_results) :
        /\ result.field_results[i].correct_value = <<"qing", "du">>
        /\ result.field_results[i].predicted_value = <<"zhong", "du">>

C9_MinguoDateKeepsEveryDigit ==
    (pc = "done" /\ call = "DocumentDataEvaluator.normalize_date"
     /\ ~args.date_str.na)
    => LET digits == SelectSeq(strip(args.date_str.s), NotDateSeparator)
       IN /\ (Len(digits) = 7 /\ AllDigits(digits))
             => result = SubSeq(digits, 1, 3) \o <<"/">>
                         \o SubSeq(digits, 4, 5) \o <<"/">>
                         \o SubSeq(digits, 6, 7)
          /\ normalize_date(Cell(result)) = result

\* C10: normalize_boolean maps Y, YES, TRUE, 1, U+662F in any letter case
\* to "Y" and N, NO, FALSE, 0, U+5426 to "N", and returns every other value
\* unchanged.  Surrounding whitespace is left out of the comparison: the
\* value is read as trimmed on both sides.
C10_BooleanPassThrough ==
    (pc = "done" /\ call = "DocumentDataEvaluator.normalize_boolean"
     /\ ~args.bool_str.na)
    => IF upper(strip(args.bool_str.s)) \in BooleanYes THEN result = <<"Y">>
       ELSE IF upper(strip(args.bool_str.s)) \in BooleanNo
            THEN result = <<"N">>
       ELSE result = strip(args.bool_str.s)

\* C11: a (record, field) pair whose ground-truth value is present and
\* non-empty and whose predicted value is missing is scored with similarity 0
\* and is_exact_match false, for every field type and on every scoring path.
C11_MissingPredictionIsMiss ==
    /\ (pc = "done" /\ call = "DisabilityDataEvaluator.evaluate_all_records")
       => \A k \in 1..Len(result) :
            \A i \in 1..Len(result[k].field_results) :
                LET r == result[k].field_results[i]
                IN (strip(r.correct_value) # <<>> /\ r.predicted_value = <<>>)
                   => (r.similarity = Zero /\ ~r.is_exact_match)
    /\ (pc = "done" /\ call = "DocumentEvaluatorService.evaluate_field_data")
       => \A i \in 1..Len(result.case_results) :
            LET r == result.case_results[i]
            IN (strip(r.human_value) # <<>> /\ r.ai_value = <<>>)
               => (r.similarity = Zero /\ ~r.is_correct)
    /\ (pc = "done" /\ call = "DocumentDataEvaluator.evaluate_record_fields")
       => \A i \in 1..Len(args.record_data) :
            LET d == args.record_data[i]
            IN (/\ ~d.correct_value.na
                /\ strip(d.correct_value.s) # <<>>
                /\ d.predicted_value.na)
               => /\ result.field_results[i].similarity = Zero
                  /\ ~result.field_results[i].is_exact_match

\* C12: a (record, field) pair whose ground-truth cell is missing produces
\* no field result and counts in neither total_fields nor matched_fields, in
\* evaluate_all_records and in evaluate_field_data.
C12_MissingGroundTruthSkipped ==
    /\ (pc = "done" /\ call = "DisabilityDataEvaluator.evaluate_all_records")
       => LET scored(k) ==
                {m \in 1..Len(args.field_mappings) :
                    /\ args.field_mappings[m].correct_col < Len(args.df[k])
                    /\ args.field_mappings[m].predicted_col < Len(args.df[k])
                    /\ ~iloc(args.df[k],
                             args.field_mappings[m].correct_col).na}
              rows == {k \in 1..Len(args.df) : scored(k) # {}}
          IN /\ Len(result) = Cardinality(rows)
             /\ \A k \in rows :
                    LET nth == Cardinality({j \in rows : j <= k})
                    IN /\ result[nth].total_fields = Cardinality(scored(k))
                       /\ Len(result[nth].field_results)
                            = Cardinality(scored(k))
                       /\ result[nth].matched_fields <= Cardinality(scored(k))
    /\ (pc = "done" /\ call = "DocumentEvaluatorService.evaluate_field_data")
       => LET present ==
                {k \in 1..Len(args.data_rows) :
                    ~iloc(args.data_rows[k], args.human_col).na}
          IN /\ result.total_cases = Cardinality(present)
             /\ Len(result.case_results) = Cardinality(present)
             /\ result.correct_cases <= Cardinality(present)

\* C13: every record result of evaluate_record_fields, in both evaluators,
\* has total_fields equal to the number of its field results, matched_fields
\* equal to the number of field results with is_exact_match true, and
\* overall_accuracy equal to the mean similarity of its field results, 0.0
\* when there are none.
C13_RecordAggregate ==
    /\ (pc = "done" /\ call = "DisabilityDataEvaluator.evaluate_all_records")
       => \A k \in 1..Len(result) :
            LET fr == result[k].field_results
            IN /\ result[k].total_fields = Len(fr)
               /\ result[k].matched_fields
                    = Cardinality({i \in 1..Len(fr) : fr[i].is_exact_match})
               /\ result[k].overall_accuracy
                    = IF Len(fr) = 0 THEN Zero
                      ELSE FracDivInt(total_score(fr), Len(fr))
    /\ (pc = "done" /\ call = "DocumentDataEvaluator.evaluate_record_fields")
       => LET fr == result.field_results
          IN /\ result.total_fields = Len(fr)
             /\ result.matched_fields
                    = Cardinality({i \in 1..Len(fr) : fr[i].is_exact_match})
             /\ result.overall_accuracy
                    = IF Len(fr) = 0 THEN Zero
                      ELSE FracDivInt(total_score(fr), Len(fr))

\* C14: calculate_overall_accuracy returns sum(accuracy_f * w_f) / sum(w_f)
\* over the evaluated fields, with w_f 0.3 for a disability-level field, 0.3
\* for a category field, 0.25 for a diagnosis field, 0.15 for a
\* certificate-type field and 0.25 for any other, and 0.0 when there are no
\* fields; accuracies {level: 1.0, category: 0.5} give 0.75.
C14_WeightedOverallAccuracy ==
    (pc = "done" /\ call = "DisabilityDataEvaluator.calculate_overall_accuracy")
    => LET w(name) ==
              IF Contains(<<"zhang", "ai", "deng", "ji">>, name)
              THEN Frac(3, 10)
              ELSE IF Contains(<<"zhang", "ai", "lei", "bie">>, name)
              THEN Frac(3, 10)
              ELSE IF Contains(<<"I", "C", "D", "zhen", "duan">>, name)
              THEN Frac(25, 100)
              ELSE IF Contains(<<"zheng", "ming", "/", "shou", "ce">>, name)
              THEN Frac(15, 100)
              ELSE Frac(25, 100)
           n == Len(args.results)
           weighted[i \in 0..n] ==
              IF i = 0 THEN Zero
              ELSE FracAdd(weighted[i - 1],
                           FracMul(args.results[i].accuracy,
                                   w(args.results[i].field_name)))
           weights[i \in 0..n] ==
              IF i = 0 THEN Zero
              ELSE FracAdd(weights[i - 1], w(args.results[i].field_name))
       IN /\ n = 0 => result = Zero
          /\ n > 0 => result = FracDiv(weighted[n], weights[n])
          /\ (/\ n = 2
              /\ args.results[1].accuracy = One
              /\ Contains(<<"zhang", "ai", "deng", "ji">>,
                          args.results[1].field_name)
              /\ args.results[2].accuracy = Frac(1, 2)
              /\ Contains(<<"zhang", "ai", "lei", "bie">>,
                          args.results[2].field_name))
             => result = Frac(3, 4)

\* C14 witness: two fields of different weight, a level field of accuracy 1.0
\* and a certificate-type field of accuracy 0.5, gave (0.3 + 0.075) / 0.45.
C14_Witness ==
    /\ pc = "done"
    /\ call = "DisabilityDataEvaluator.calculate_overall_accuracy"
    /\ Len(args.results) = 2
    /\ args.results[1] = [field_name |-> <<"zhang", "ai", "deng", "ji">>,
                          accuracy |-> One]
    /\ args.results[2] = [field_name |-> <<"zheng", "ming", "/", "shou", "ce">>,
                          accuracy |-> Frac(1, 2)]
    /\ result = Frac(5, 6)

\* C19: normalize_value and calculate_field_similarity raise an error when
\* the field_type they are given is none of the types they have a comparison
\* strategy for, instead of returning a value computed by a default strategy.
C19_InvalidFieldTypeRaises ==
    (/\ call \in {"DocumentDataEvaluator.normalize_value",
                  "DocumentDataEvaluator.calculate_field_similarity"}
     /\ args.field_type \notin Document_FieldType
     /\ pc # "ready")
    => pc = "raised"

\* C20: during one evaluation run over a table every row of the same field
\* is normalized and compared under the same field type, whatever the values
\* in those rows.
C20_FieldTypeFixedPerField ==
    (pc = "done" /\ call = "DocumentEvaluatorService.evaluate_field_data")
    => LET evaluated ==
              {k \in 1..Len(args.data_rows) :
                  \/ ~iloc(args.data_rows[k], args.human_col).na
                  \/ ~iloc(args.data_rows[k], args.ai_col).na}
           type_of(k) ==
              determine_field_type(args.field_name,
                                   iloc(args.data_rows[k], args.human_col),
                                   iloc(args.data_rows[k], args.ai_col))
       IN \A j, k \in evaluated : type_of(j) = type_of(k)


---------------------------------------------------------------------------
(* The rows of a table as the claims about splitting read them *)

IsMarkerRow(row) == found_model(row_values(row)) # <<>>

IsHeaderRow(row) ==
    ~IsMarkerRow(row) /\ has_header_keywords(row_values(row)) >= 3

IsBlankRow(row) == ~IsDataRow(row_values(row))

IsPlainDataRow(row) ==
    ~IsMarkerRow(row) /\ ~IsHeaderRow(row) /\ IsDataRow(row_values(row))

MarkerPositions(df) == {p \in 1..Len(df) : IsMarkerRow(df[p])}

\* the last row of the stretch the marker at p opens
StretchEnd(df, p) ==
    LET later == {q \in MarkerPositions(df) : q > p}
    IN IF later = {} THEN Len(df)
       ELSE (CHOOSE q \in later : \A j \in later : q <= j) - 1

ModelNameAt(df, p) == found_model(row_values(df[p]))

\* k >= 2 markers of different names, each followed by a header row and
\* then by data rows and blank rows, at least one of them a data row
WellFormedTable(df) ==
    /\ Cardinality(MarkerPositions(df)) >= 2
    /\ IsMarkerRow(df[1])
    /\ \A p, q \in MarkerPositions(df) :
            p # q => ModelNameAt(df, p) # ModelNameAt(df, q)
    /\ \A p \in MarkerPositions(df) :
            /\ StretchEnd(df, p) >= p + 2
            /\ IsHeaderRow(df[p + 1])
            /\ \A q \in (p + 2)..StretchEnd(df, p) :
                    IsPlainDataRow(df[q]) \/ IsBlankRow(df[q])
            /\ \E q \in (p + 2)..StretchEnd(df, p) : IsPlainDataRow(df[q])

\* the block the stretch of the marker at p is to give
ExpectedBlock(df, p) ==
    [name |-> ModelNameAt(df, p),
     df |-> [columns |-> [k \in 1..Len(df[p + 1]) |->
                            StrLabel(row_values(df[p + 1])[k])],
             rows |-> LET data == SelectSeq(SubSeq(df, p + 2, StretchEnd(df, p)),
                                            IsPlainDataRow)
                      IN [r \in 1..Len(data) |->
                            [k \in 1..Len(data[r]) |->
                                Cell(row_values(data[r])[k])]]]]

RECURSIVE ExpectedBlocks(_, _)
ExpectedBlocks(df, p) ==
    IF p > Len(df) THEN <<>>
    ELSE IF IsMarkerRow(df[p])
    THEN <<ExpectedBlock(df, p)>> \o ExpectedBlocks(df, p + 1)
    ELSE ExpectedBlocks(df, p + 1)

HeaderRepeatsField(columns) ==
    \E field \in {FieldLevel, FieldCategory, FieldDiagnosis} :
        Cardinality({k \in 1..Len(columns) : columns[k] = StrLabel(field)}) >= 2

\* C15: a table of k >= 2 marker rows of different names, each followed by a
\* header row of at least 3 keyword cells and at least one data row, is split
\* into exactly k blocks, each holding exactly the data rows of its model
\* under its header, and _detect_column_mappings finds at least one mapping
\* in each block whose header repeats a field name
C15_VerticalSplit ==
    (pc = "done" /\ WellFormedTable(args.df)) =>
        /\ result.model_blocks = ExpectedBlocks(args.df, 1)
        /\ Len(result.model_blocks) = Cardinality(MarkerPositions(args.df))
        /\ \A b \in 1..Len(result.model_blocks) :
                HeaderRepeatsField(result.model_blocks[b].df.columns)
                    => result.column_mappings[b] # <<>>

\* two blocks separated by a blank row, one header repeating a field name
C15_Witness ==
    /\ pc = "done"
    /\ WellFormedTable(args.df)
    /\ Len(result.model_blocks) = 2
    /\ \E q \in 1..Len(args.df) : IsBlankRow(args.df[q]) /\ q < Len(args.df)
    /\ Len(result.model_blocks[1].df.rows) = 2
    /\ \E b \in 1..2 :
            /\ HeaderRepeatsField(result.model_blocks[b].df.columns)
            /\ result.column_mappings[b] # <<>>
    /\ \E b \in 1..2 :
            ~HeaderRepeatsField(result.model_blocks[b].df.columns)

\* the marker at p is followed by a header row only
HeaderOnlyAt(df, p) ==
    /\ StretchEnd(df, p) = p + 1
    /\ IsHeaderRow(df[p + 1])

\* C16: a marker row followed only by a header row, and then by the next
\* marker row or the end of the table, yields no block
C16_NoBlockWithoutDataRows ==
    pc = "done" =>
        \A p \in MarkerPositions(args.df) :
            (/\ HeaderOnlyAt(args.df, p)
             /\ \A q \in MarkerPositions(args.df) \ {p} :
                    ModelNameAt(args.df, q) # ModelNameAt(args.df, p))
                => \A b \in 1..Len(result.model_blocks) :
                        result.model_blocks[b].name # ModelNameAt(args.df, p)


MultipleModelsEnded ==
    /\ call = "DisabilityDataEvaluatorService._process_multiple_models"
    /\ pc \in {"done", "raised"}

\* the block provides its own field mappings and its rows can be evaluated
\* under them, whatever the evaluator held before
BlockStandsAlone(df) ==
    /\ _detect_column_mappings(df) # <<>>
    /\ ~RecordEvaluationRaises(df, _detect_column_mappings(df))

SucceededNames(blocks, outcomes) ==
    LET succeeded == {b \in 1..Len(blocks) : outcomes[b] = ""}
        RECURSIVE names(_)
        names(b) == IF b > Len(blocks) THEN <<>>
                    ELSE IF b \in succeeded
                    THEN <<blocks[b].name>> \o names(b + 1)
                    ELSE names(b + 1)
    IN names(1)

\* C17: in _process_multiple_models every block is validated and evaluated
\* whatever happened to the blocks before it; a block whose validation or
\* evaluation raises is skipped; the results handed to the report generator
\* are exactly the blocks that did not raise, in their order, and a block
\* that maps and evaluates on its own is among them with its own results
C17_BlocksFailIndependently ==
    MultipleModelsEnded =>
        LET blocks == args.model_blocks
            results == result.all_model_results
        IN /\ Len(result.outcomes) = Len(blocks)
           /\ [r \in 1..Len(results) |-> results[r].name]
                = SucceededNames(blocks, result.outcomes)
           /\ \A b \in 1..Len(blocks) :
                BlockStandsAlone(blocks[b].df) =>
                    /\ result.outcomes[b] = ""
                    /\ \E r \in 1..Len(results) :
                        results[r] =
                            ModelResult(blocks[b].name,
                                        EvaluateTable(blocks[b].df,
                                                      default_field_mappings))
           /\ (pc = "done") = (\E b \in 1..Len(blocks) : result.outcomes[b] = "")

\* three blocks: the first fails in validation, the second succeeds, the
\* third fails in evaluation
C17_Witness ==
    /\ MultipleModelsEnded
    /\ pc = "done"
    /\ result.outcomes = <<"DataValidationError", "", "ValueError">>
    /\ Len(result.all_model_results) = 1
    /\ result.all_model_results[1].name = args.model_blocks[2].name

\* C18: when no usable field mapping is found at all (every block of the
\* multi-model path fails validation, the single table fails validation, the
\* document sheet yields no field evaluation), the request fails with
\* DataValidationError and no report is produced
C18_NoMappingIsDataValidationError ==
    LET no_mapping ==
            IF call = "DocumentEvaluatorService.process_document_file"
            THEN /\ args.df # <<>>
                 /\ parse_horizontal_document_data(args.df).field_evaluations
                        = <<>>
            ELSE \A b \in 1..Len(result.outcomes) :
                    result.outcomes[b] = "DataValidationError"
    IN (pc \in {"done", "raised"} /\ no_mapping) =>
            (pc = "raised" /\ result.raised = "DataValidationError")


\* C21: validating or evaluating a block leaves the field mappings of the
\* evaluator as they were, and whether a block is accepted or rejected is
\* what it is for the same block handed first to a fresh service
C21_NoSharedMappingState ==
    (/\ call = "DisabilityDataEvaluatorService._process_multiple_models"
     /\ pc \in {"loop", "done", "raised"}
     /\ args.field_mappings = default_field_mappings) =>
        /\ result.field_mappings = args.field_mappings
        /\ \A b \in 1..Len(result.outcomes) :
                result.outcomes[b]
                    = EvaluateTable(args.model_blocks[b].df,
                                    default_field_mappings).raised


\* the first row of the stretch of the marker at p that has at least 3
\* header-keyword cells, 0 if there is none
HeaderPositionAfter(df, p) ==
    LET headers == {q \in (p + 1)..StretchEnd(df, p) :
                        has_header_keywords(row_values(df[q])) >= 3}
    IN IF headers = {} THEN 0
       ELSE CHOOSE q \in headers : \A j \in headers : q <= j

NonEmptyRow(row) == IsDataRow(row_values(row))

\* the header at h as column names and the non-empty rows behind it
BlockBehindHeader(df, p, h) ==
    [columns |-> [k \in 1..Len(df[h]) |-> StrLabel(row_values(df[h])[k])],
     rows |-> LET data == SelectSeq(SubSeq(df, h + 1, StretchEnd(df, p)),
                                    NonEmptyRow)
              IN [r \in 1..Len(data) |->
                    [k \in 1..Len(data[r]) |-> Cell(row_values(data[r])[k])]]]

\* C22: the column names of a block are the cells of the first row after its
\* marker row with at least 3 header-keyword cells, and its data rows are
\* exactly the non-empty rows after that header row up to the next marker row
\* or the end of the table; rows between marker and header are neither
C22_HeaderAndDataRows ==
    pc = "done" =>
        \A b \in 1..Len(result.model_blocks) :
            \A p \in MarkerPositions(args.df) :
                (/\ ModelNameAt(args.df, p) = result.model_blocks[b].name
                 /\ \A q \in MarkerPositions(args.df) \ {p} :
                        ModelNameAt(args.df, q) # ModelNameAt(args.df, p)
                 /\ HeaderPositionAfter(args.df, p) # 0)
                    => result.model_blocks[b].df
                        = BlockBehindHeader(args.df, p,
                                            HeaderPositionAfter(args.df, p))


\* the 0-based positions of the columns whose header matches a field
MatchingPositions(columns, field_name) ==
    {k \in 0..(Len(columns) - 1) :
        LET col_str == strip(LabelStr(columns[k + 1]))
        IN IF field_name = FieldLevel THEN Contains(FieldLevel, col_str)
           ELSE IF field_name = FieldCategory
           THEN Contains(FieldCategory, col_str)
           ELSE \/ Contains(<<"I", "C", "D">>, col_str)
                \/ Contains(<<"zhen", "duan">>, col_str)}

MappedFields == {FieldLevel, FieldCategory, FieldDiagnosis}

\* some field has two columns: the mapping is made by name
MappedByName(columns) ==
    \E field_name \in MappedFields :
        Cardinality(MatchingPositions(columns, field_name)) >= 2

\* C23: in a mapping made by name every mapped field has as ground truth the
\* position of the first column matching the field and as prediction the
\* position of the second; both are positions of columns of the table, the
\* first smaller than the second; and each field has exactly one pair
C23_NameBasedMapping ==
    (/\ pc = "done"
     /\ call = "DisabilityDataEvaluatorService._detect_column_mappings"
     /\ MappedByName(args.df.columns)) =>
        LET columns == args.df.columns
            mappings == result.mappings
        IN /\ \A m \in 1..Len(mappings) :
                LET at == MatchingPositions(columns, mappings[m].field_name)
                    correct == mappings[m].correct_col
                    predicted == mappings[m].predicted_col
                IN /\ mappings[m].field_name \in MappedFields
                   /\ correct.kind = "int" /\ predicted.kind = "int"
                   /\ correct.i \in at /\ predicted.i \in at
                   /\ \A k \in at : correct.i <= k
                   /\ \A k \in at \ {correct.i} : predicted.i <= k
                   /\ correct.i < predicted.i
                   /\ predicted.i < Len(columns)
           /\ \A m, n \in 1..Len(mappings) :
                mappings[m].field_name = mappings[n].field_name => m = n
           /\ \A field_name \in MappedFields :
                (Cardinality(MatchingPositions(columns, field_name)) >= 2)
                    = (\E m \in 1..Len(mappings) :
                            mappings[m].field_name = field_name)

\* three columns match the level, not the first two columns of the table,
\* and a second field is mapped beside it
C23_Witness ==
    /\ pc = "done"
    /\ call = "DisabilityDataEvaluatorService._detect_column_mappings"
    /\ Len(result.mappings) = 2
    /\ \E m \in 1..2 :
        /\ result.mappings[m].field_name = FieldLevel
        /\ Cardinality(MatchingPositions(args.df.columns, FieldLevel)) = 3
        /\ result.mappings[m].correct_col = IntLabel(1)
        /\ result.mappings[m].predicted_col = IntLabel(3)


\* C24: a pair of columns taken by position is returned only when no field
\* is mapped by name and the table has at least 10 columns, and every such
\* pair has passed _validate_column_content
C24_PositionalFallbackValidated ==
    (/\ pc = "done"
     /\ call = "DisabilityDataEvaluatorService._detect_column_mappings") =>
        \A m \in 1..Len(result.mappings) :
            ~MappedByName(args.df.columns) =>
                /\ Len(args.df.columns) >= 10
                /\ _validate_column_content(args.df,
                                            result.mappings[m].correct_col,
                                            result.mappings[m].predicted_col,
                                            result.mappings[m].field_name)


\* the type the claimed priority gives two sampled values: BOOLEAN when
\* either is a boolean token, else DATE when either looks like a date, else
\* AMOUNT when either is purely numeric, else TEXT
BooleanToken(value) == ~value.na /\ strip(value.s) \in BooleanTokens

DateLike(value) == ~value.na /\ LooksLikeDate(strip(value.s))

PurelyNumeric(value) == ~value.na /\ LooksLikeAmount(strip(value.s))

PriorityType(correct_value, predicted_value) ==
    IF BooleanToken(correct_value) \/ BooleanToken(predicted_value)
    THEN "BOOLEAN"
    ELSE IF DateLike(correct_value) \/ DateLike(predicted_value)
    THEN "DATE"
    ELSE IF PurelyNumeric(correct_value) \/ PurelyNumeric(predicted_value)
    THEN "AMOUNT"
    ELSE "TEXT"

\* C25: under a field name without a type keyword the field type of an
\* evaluated field is BOOLEAN when either value is a boolean token, else
\* DATE when either value looks like a date, else AMOUNT when either value
\* is purely numeric, else TEXT
C25_FieldTypePriority ==
    (/\ pc = "done"
     /\ call = "DocumentDataEvaluator.evaluate_single_field"
     /\ args.field_name = <<"bei", "zhu">>) =>
        result.field_type =
            PriorityType(args.correct_value, args.predicted_value)

\* the same priority when the ground truth matches no test or is a boolean
\* token, which is when the order of inspection does not matter
C25_PriorityWhenCorrectDecides ==
    (/\ pc = "done"
     /\ call = "DocumentDataEvaluator.evaluate_single_field"
     /\ args.field_name = <<"bei", "zhu">>
     /\ (ContentType(args.correct_value) = ""
         \/ BooleanToken(args.correct_value))) =>
        result.field_type =
            PriorityType(args.correct_value, args.predicted_value)


\* a date written YYY/MM/DD
ValidDate(s) ==
    /\ Len(s) = 9
    /\ s[4] = "/" /\ s[7] = "/"
    /\ AllDigits(SubSeq(s, 1, 3) \o SubSeq(s, 5, 6) \o SubSeq(s, 8, 9))

CanonicalDate(value) == IF value.na THEN <<>> ELSE normalize_date(value)

EqualParts(a, b) ==
    Cardinality({i \in 1..3 : SplitOnSlash(a)[i] = SplitOnSlash(b)[i]})

\* C26: the similarity of a DATE field is 1.0 exactly when the canonical forms
\* of the two values are equal; otherwise it is the number of equal parts
\* over 3 when both canonical forms have exactly 3 parts and 0.0 when one has
\* not; two dates YYY/MM/DD that differ only in the day score 2/3 and are no
\* exact match
C26_DateSimilarity ==
    (/\ pc = "done"
     /\ call = "DocumentDataEvaluator.evaluate_single_field"
     /\ result.field_type = "DATE") =>
        LET a == CanonicalDate(args.correct_value)
            b == CanonicalDate(args.predicted_value)
            c == IF args.correct_value.na THEN <<>>
                 ELSE strip(args.correct_value.s)
            p == IF args.predicted_value.na THEN <<>>
                 ELSE strip(args.predicted_value.s)
        IN /\ (result.similarity = One) <=> (a = b)
           /\ a # b =>
                result.similarity =
                    IF Len(SplitOnSlash(a)) = 3 /\ Len(SplitOnSlash(b)) = 3
                    THEN Frac(EqualParts(a, b), 3)
                    ELSE Zero
           /\ (/\ ValidDate(c) /\ ValidDate(p)
               /\ SubSeq(c, 1, 7) = SubSeq(p, 1, 7)
               /\ c # p) =>
                /\ result.similarity = Frac(2, 3)
                /\ ~result.is_exact_match

\* the canonical forms alone decide the similarity as claimed
C26_CanonicalFormsOnly ==
    (/\ pc = "done"
     /\ call = "DocumentDataEvaluator.evaluate_single_field"
     /\ result.field_type = "DATE") =>
        LET a == CanonicalDate(args.correct_value)
            b == CanonicalDate(args.predicted_value)
        IN /\ (result.similarity = One) <=> (a = b)
           /\ a # b =>
                result.similarity =
                    IF Len(SplitOnSlash(a)) = 3 /\ Len(SplitOnSlash(b)) = 3
                    THEN Frac(EqualParts(a, b), 3)
                    ELSE Zero

\* two dates YYY/MM/DD that differ only in the day are no exact match
C26_DayDifferenceSeen ==
    (/\ pc = "done"
     /\ call = "DocumentDataEvaluator.evaluate_single_field"
     /\ result.field_type = "DATE"
     /\ ~args.correct_value.na /\ ~args.predicted_value.na
     /\ ValidDate(args.correct_value.s) /\ ValidDate(args.predicted_value.s)
     /\ SubSeq(args.correct_value.s, 1, 7)
            = SubSeq(args.predicted_value.s, 1, 7)
     /\ args.correct_value.s # args.predicted_value.s) =>
        ~result.is_exact_match


\* the tokens of text when it is compared with other: the words between
\* whitespace when either holds a space once its whitespace runs are
\* collapsed, the single characters when neither does
TokensFor(text, other) ==
    wer_tokens(CollapseWhitespace(strip(text)),
               CollapseWhitespace(strip(other)),
               CollapseWhitespace(strip(text)))

HasSpace(s) == \E i \in 1..Len(s) : IsSpace(s[i])

\* C27: every reported word error rate is computed over the words between
\* whitespace when the reference or the hypothesis contains a space, and over
\* single characters only when neither does
C27_WerTokenization ==
    /\ (/\ pc = "done"
        /\ call = "DisabilityDataEvaluator.calculate_ocr_metrics"
        /\ ~args.reference.na /\ ~args.hypothesis.na) =>
            result.wer =
                _calculate_edit_distance_rate(
                    TokensFor(args.reference.s, args.hypothesis.s),
                    TokensFor(args.hypothesis.s, args.reference.s))
    /\ (/\ pc = "done"
        /\ call = "DocumentDataEvaluator.evaluate_single_field"
        /\ result.correct_value # <<>>
        /\ result.predicted_value # <<>>) =>
            result.wer =
                Frac(_edit_distance(
                         TokensFor(result.correct_value,
                                   result.predicted_value),
                         TokensFor(result.predicted_value,
                                   result.correct_value)),
                     Len(TokensFor(result.correct_value,
                                   result.predicted_value)))

\* the word error rates of DisabilityDataEvaluator alone
C27_DisabilityWerTokenization ==
    (/\ pc = "done"
     /\ call = "DisabilityDataEvaluator.calculate_ocr_metrics"
     /\ ~args.reference.na /\ ~args.hypothesis.na) =>
        result.wer =
            _calculate_edit_distance_rate(
                TokensFor(args.reference.s, args.hypothesis.s),
                TokensFor(args.hypothesis.s, args.reference.s))

\* the word error rates of DocumentDataEvaluator between values without
\* whitespace
C27_DocumentWerWithoutSpace ==
    (/\ pc = "done"
     /\ call = "DocumentDataEvaluator.evaluate_single_field"
     /\ result.correct_value # <<>>
     /\ result.predicted_value # <<>>
     /\ ~HasSpace(result.correct_value)
     /\ ~HasSpace(result.predicted_value)) =>
        result.wer =
            Frac(_edit_distance(result.correct_value, result.predicted_value),
                 Len(result.correct_value))


\* two present values that differ at most in whitespace
SameButWhitespace(a, b) ==
    /\ ~a.na /\ ~b.na
    /\ RemoveWhitespace(strip(a.s)) = RemoveWhitespace(strip(b.s))

\* C28: two values of a TEXT field that differ only in leading, trailing or
\* internal whitespace get CER 0.0, similarity 1.0 and an exact match, from
\* DocumentDataEvaluator as from DisabilityDataEvaluator
C28_TextIgnoresWhitespace ==
    /\ (/\ pc = "done"
        /\ call = "DisabilityDataEvaluator.calculate_ocr_metrics"
        /\ SameButWhitespace(args.reference, args.hypothesis)) =>
            /\ result.cer = Zero
            /\ result.similarity = One
    /\ (/\ pc = "done"
        /\ call = "DocumentDataEvaluator.evaluate_single_field"
        /\ result.field_type = "TEXT"
        /\ SameButWhitespace(args.correct_value, args.predicted_value)) =>
            /\ result.cer = Zero
            /\ result.similarity = One
            /\ result.is_exact_match

\* the same of DisabilityDataEvaluator alone
C28_DisabilityIgnoresWhitespace ==
    (/\ pc = "done"
     /\ call = "DisabilityDataEvaluator.calculate_ocr_metrics"
     /\ SameButWhitespace(args.reference, args.hypothesis)) =>
        /\ result.cer = Zero
        /\ result.similarity = One

\* DocumentDataEvaluator ignores the whitespace around a TEXT value
C28_DocumentIgnoresOuterWhitespace ==
    (/\ pc = "done"
     /\ call = "DocumentDataEvaluator.evaluate_single_field"
     /\ result.field_type = "TEXT"
     /\ ~args.correct_value.na /\ ~args.predicted_value.na
     /\ strip(args.correct_value.s) = strip(args.predicted_value.s)) =>
        /\ result.cer = Zero
        /\ result.similarity = One
        /\ result.is_exact_match


\* k >= 2 markers, of whatever names, each followed by a header row and then
\* by data rows and blank rows, at least one of them a data row
WellFormedStretches(df) ==
    /\ Cardinality(MarkerPositions(df)) >= 2
    /\ IsMarkerRow(df[1])
    /\ \A p \in MarkerPositions(df) :
            /\ StretchEnd(df, p) >= p + 2
            /\ IsHeaderRow(df[p + 1])
            /\ \A q \in (p + 2)..StretchEnd(df, p) :
                    IsPlainDataRow(df[q]) \/ IsBlankRow(df[q])
            /\ \E q \in (p + 2)..StretchEnd(df, p) : IsPlainDataRow(df[q])

\* C29: split_models_from_dataframe returns as many blocks as there are
\* markers whose block has a data row, also when two markers carry the same
\* model name, and the data rows of every marker are those of some block
C29_NoBlockLostToNameClash ==
    (pc = "done" /\ WellFormedStretches(args.df)) =>
        /\ Len(result.model_blocks) = Cardinality(MarkerPositions(args.df))
        /\ \A p \in MarkerPositions(args.df) :
                \E b \in 1..Len(result.model_blocks) :
                    result.model_blocks[b] = ExpectedBlock(args.df, p)

\* the last marker of a name always keeps its data rows
C29_LastBlockOfNameKept ==
    (pc = "done" /\ WellFormedStretches(args.df)) =>
        \A p \in MarkerPositions(args.df) :
            (\A q \in MarkerPositions(args.df) :
                (q > p => ModelNameAt(args.df, q) # ModelNameAt(args.df, p)))
                => \E b \in 1..Len(result.model_blocks) :
                        result.model_blocks[b] = ExpectedBlock(args.df, p)


\* C30: a result of evaluate_single_field whose normalized values are shorter
\* than 100 characters and that reports an exact match reports a character
\* error rate of 0.0, whatever the field type and also when a value is missing
C30_ExactMatchHasZeroCer ==
    (/\ pc = "done"
     /\ call = "DocumentDataEvaluator.evaluate_single_field"
     /\ Len(result.correct_value) < 100
     /\ Len(result.predicted_value) < 100
     /\ result.is_exact_match) =>
        result.cer = Zero

\* the same of the TEXT and BOOLEAN fields alone
C30_TextAndBooleanAgree ==
    (/\ pc = "done"
     /\ call = "DocumentDataEvaluator.evaluate_single_field"
     /\ result.field_type \in {"TEXT", "BOOLEAN"}
     /\ Len(result.correct_value) < 100
     /\ Len(result.predicted_value) < 100
     /\ result.is_exact_match) =>
        result.cer = Zero

\* the same of the AMOUNT fields whose values are both present
C30_PresentAmountsAgree ==
    (/\ pc = "done"
     /\ call = "DocumentDataEvaluator.evaluate_single_field"
     /\ result.field_type = "AMOUNT"
     /\ ~args.correct_value.na /\ ~args.predicted_value.na
     /\ result.is_exact_match) =>
        result.cer = Zero

\* the same of the DATE fields
C30_DatesAgree ==
    (/\ pc = "done"
     /\ call = "DocumentDataEvaluator.evaluate_single_field"
     /\ result.field_type = "DATE"
     /\ result.is_exact_match) =>
        result.cer = Zero

====
